---- MODULE Spec2Model ----
(***************************************************************************)
(* Model of the next-ops incident store and of the handlers that mutate    *)
(* it: the API routes (app/api/incidents/...) and the server actions       *)
(* (app/actions/incidents.ts).  Every handler is split at the points where *)
(* it awaits the store, so that two handlers interleave the way two        *)
(* requests do; a prisma.$transaction block is one atomic step.            *)
(***************************************************************************)
EXTENDS Integers, Sequences, FiniteSets, TLC

\* ------------------------------------------------------------------ bounds
MaxRequests == 2      \* requests issued in one behaviour (they may overlap)
MaxIncidents == 2     \* incident rows
MaxBulkInFlight == 1  \* bulk requests being handled at the same time
MaxPasses == 2        \* processLoop passes that can be running at once
MaxJobs == 2          \* jobs in the queue of the worker specifications
MaxPolls == 2         \* interval callbacks of one stream running at once

\* ------------------------------------------------------- fixed vocabulary
Tenants == {"tA", "tB"}
Users == {"alice", "bob"}
NoUser == "anonymous"          \* a request without a session user
Null == "null"                 \* JSON null / SQL NULL
Absent == "-"                  \* a key that a JSON snapshot does not carry

Status == {"OPEN", "MITIGATED", "RESOLVED"}
Unknown == "UNKNOWN"

\* Membership rows (userId, tenantId) -> role; "NONE" when there is no row.
\* alice edits tenant tA, bob only views it; bob administers tenant tB.
Membership ==
  [u \in Users |-> [t \in Tenants |->
     IF u = "alice" /\ t = "tA" THEN "ENGINEER"
     ELSE IF u = "bob" /\ t = "tA" THEN "VIEWER"
     ELSE IF u = "bob" /\ t = "tB" THEN "ADMIN"
     ELSE "NONE"]]

\* NODE_ENV === "development" switches the role checks off; the model is the
\* production build.
DevMode == FALSE

IncidentIds == 1..MaxIncidents
RequestIds == 1..MaxRequests
PassIds == 1..MaxPasses

VARIABLES
  incidents,   \* Incident table: id -> row, DOMAIN = the ids that exist
  timeline,    \* TimelineEvent table in insertion order
  auditLog,    \* AuditLog table in insertion order
  reqs,        \* the requests of this behaviour: id -> handler state
  attachments, \* Attachment table in insertion order
  jobs,        \* Job table in insertion order (createdAt ascending)
  passes,      \* the processLoop passes of the workers: id -> position
  flags,       \* FeatureFlag table: id -> row
  rules,       \* Rule table in insertion order
  evals,       \* the latest evaluateFeatureFlag call: its arguments and result
  now,         \* Date.now() of the server process
  rateLimitStore, \* the Map of the rate limiter: key -> { count, resetAt }
  rateLimit,   \* the latest checkRateLimit call: its key and result
  csrf,        \* the latest requireCsrf call: its request and answer
  conn,        \* the stream connection: the closure of its start()
  polls,       \* the interval callbacks of the connection that are running
  frames       \* the data frames enqueued on the connection, in order

store == <<incidents, timeline, auditLog>>
queue == <<attachments, jobs, passes>>
\* the tables and processes that the incident handlers never touch
flagTables == <<flags, rules, evals>>
limiter == <<now, rateLimitStore, rateLimit>>
\* the in-process services beside the tables
streamVars == <<conn, polls, frames>>
services == <<limiter, csrf, streamVars>>
beyondIncidents == <<queue, flagTables, services>>
vars == <<incidents, timeline, auditLog, reqs, attachments, jobs, passes,
          flags, rules, evals, now, rateLimitStore, rateLimit, csrf,
          conn, polls, frames>>

\* ------------------------------------------------------- pure functions
\* the table of app/api/incidents/[id]/route.ts
Route_VALID_TRANSITIONS ==
  [s \in Status |->
     IF s = "OPEN" THEN {"MITIGATED", "RESOLVED"}
     ELSE IF s = "MITIGATED" THEN {"RESOLVED"}
     ELSE {}]

\* const validTransitions = VALID_TRANSITIONS[incident.status] || []
validTransitions(status) ==
  IF status \in DOMAIN Route_VALID_TRANSITIONS
  THEN Route_VALID_TRANSITIONS[status]
  ELSE {}

\* the table of app/actions/incidents.ts
VALID_TRANSITIONS ==
  [s \in Status |->
     IF s = "OPEN" THEN {"MITIGATED", "RESOLVED"}
     ELSE IF s = "MITIGATED" THEN {"RESOLVED"}
     ELSE {}]

isValidTransition_selfloop(from, to) ==
  IF from \in DOMAIN VALID_TRANSITIONS
  THEN to \in VALID_TRANSITIONS[from] \/ (from = to /\ from # "RESOLVED")
  ELSE FALSE

\* VALID_TRANSITIONS[from]?.includes(to) || false
isValidTransition(from, to) ==
  IF from \in DOMAIN VALID_TRANSITIONS
  THEN to \in VALID_TRANSITIONS[from]
  ELSE FALSE

canEdit(role) == role = "ADMIN" \/ role = "ENGINEER"

canAdmin(role) == role = "ADMIN"

\* getUserTenantRole: the caller's membership role in the tenant, or NONE
getUserTenantRole(user, tenantId) ==
  IF user \in Users THEN Membership[user][tenantId] ELSE "NONE"

\* setTenantContext stores a tenant in the session only for a member of it,
\* so the tenant context of a signed-in caller is a tenant the caller
\* belongs to, or none when no tenant was chosen yet.
SessionTenants(user) ==
  {t \in Tenants : getUserTenantRole(user, t) # "NONE"} \cup {Absent}

\* ------------------------------------------------------- rows
IncidentRow(tenantId, status, assigneeId, updatedAt) ==
  [tenantId |-> tenantId, status |-> status,
   assigneeId |-> assigneeId, updatedAt |-> updatedAt]

TimelineEvent(incidentId, tenantId, type, from, to, message, createdById) ==
  [incidentId |-> incidentId, tenantId |-> tenantId, type |-> type,
   from |-> from, to |-> to, message |-> message, createdById |-> createdById]

AuditRow(tenantId, actorId, action, entityId, before, after) ==
  [tenantId |-> tenantId, actorId |-> actorId, action |-> action,
   entityId |-> entityId, beforeData |-> before, afterData |-> after]

\* JSON snapshot of an incident, projected on the fields the model keeps
Snapshot(status, assigneeId) == [status |-> status, assigneeId |-> assigneeId]
SnapshotOf(row) == Snapshot(row.status, row.assigneeId)
NoData == Snapshot(Absent, Absent)

\* ------------------------------------------------------- handler state
NotStarted ==
  [pc |-> "new", op |-> Absent, user |-> Absent, tenantId |-> Absent,
   ids |-> {}, newStatus |-> Absent, assigneeId |-> Absent,
   message |-> "", snap |-> <<>>, todo |-> {}, cur |-> 0, code |-> Absent,
   mark |-> <<0, 0>>, returned |-> {}, evType |-> Absent]

Done(c) == [NotStarted EXCEPT !.pc = "done", !.code = c]

InFlight == {k \in RequestIds : reqs[k].pc \notin {"new", "done"}}

\* request k can be issued: the earlier ones were
CanStart(k) ==
  /\ reqs[k].pc = "new"
  /\ \A j \in RequestIds : j < k => reqs[j].pc # "new"

\* a bulk request can be issued
CanStartBulk(k) ==
  /\ CanStart(k)
  /\ Cardinality(InFlight) < MaxBulkInFlight

\* an early return: the handler answers and has written nothing
Answer(k, c) ==
  /\ reqs' = [reqs EXCEPT ![k] = Done(c)]
  /\ UNCHANGED store

\* the handler passed its checks and goes on to its writes; mark remembers
\* how long the two logs were when it read the store
Proceed(k, r) ==
  /\ reqs' = [reqs EXCEPT ![k] =
                [r EXCEPT !.mark = <<Len(timeline), Len(auditLog)>>]]
  /\ UNCHANGED store

\* prisma.incident.findFirst({ where: { id, tenantId } })
findFirst(id, tenantId) ==
  id \in DOMAIN incidents /\ incidents[id].tenantId = tenantId

\* prisma.incident.findMany({ where: { id: { in: ids }, tenantId } })
findMany(ids, tenantId) ==
  {i \in ids \cap DOMAIN incidents : incidents[i].tenantId = tenantId}

\* @updatedAt: every update of a row advances its updatedAt
Touch(row) == [row EXCEPT !.updatedAt = @ + 1]

\* the orders in which a loop can walk the rows of a findMany without orderBy
Orders(S) ==
  {o \in [1..Cardinality(S) -> S] :
     \A a, b \in 1..Cardinality(S) : a # b => o[a] # o[b]}

\* `Assigned to ${membership.user.name}`
AssignedTo(u) ==
  IF u = "alice" THEN "Assigned to alice" ELSE "Assigned to bob"

\* ------------------------------------------------------- initial state
\* The store after MaxIncidents incidents were created in tenant tA by
\* createIncident: each is OPEN and has its creation event and audit row.
CreationEvent(i) ==
  TimelineEvent(i, "tA", "STATUS_CHANGE", Null, "OPEN", "", "alice")

CreationAudit(i) ==
  AuditRow("tA", "alice", "CREATE", i, NoData, Snapshot("OPEN", Null))

\* a processLoop that is not running: between two ticks of setInterval
IdlePass == [pc |-> "idle", list |-> <<>>, job |-> 0, read |-> 0, out |-> Absent]

\* no attachment uploaded, no job enqueued, no pass running
EmptyQueue ==
  /\ attachments = <<>>
  /\ jobs = <<>>
  /\ passes = [p \in PassIds |-> IdlePass]

\* evals before any evaluation was asked for
NoEval ==
  [flagId |-> 0, rules |-> <<>>, userId |-> Absent, environment |-> Absent,
   enabled |-> FALSE, reason |-> Absent, n |-> 0, results |-> <<>>,
   failed |-> {}, traces |-> <<>>]

\* no feature flag defined, nothing evaluated
EmptyFlags ==
  /\ flags = <<>>
  /\ rules = <<>>
  /\ evals = NoEval

\* the result slot of checkRateLimit before any call
NoLimit == [key |-> <<Absent, Absent>>, limited |-> FALSE, remaining |-> 0,
            resetAt |-> 0]

\* the answer slot of requireCsrf before any call
NoCsrf == [method |-> Absent, host |-> Absent, origin |-> Absent,
           referer |-> Absent, requestedWith |-> Absent, status |-> 0]

\* no stream was asked for
NoConn ==
  [pc |-> "none", status |-> 0, incidentId |-> 0, lastUpdated |-> 0,
   lastTimelineCount |-> 0, baseline |-> 0, interval |-> FALSE,
   listening |-> FALSE, closed |-> FALSE, aborted |-> FALSE, last |-> Absent]

\* an interval callback that is not running
IdlePoll ==
  [pc |-> "idle", found |-> FALSE, updatedAt |-> 0, count |-> 0, take |-> 0,
   events |-> <<>>]

\* a server process that just started: an empty limiter, nothing answered,
\* no stream open
EmptyServices ==
  /\ now = 0
  /\ rateLimitStore = <<>>
  /\ rateLimit = NoLimit
  /\ csrf = NoCsrf
  /\ conn = NoConn
  /\ polls = [p \in 1..MaxPolls |-> IdlePoll]
  /\ frames = <<>>

InitIncidents ==
  /\ incidents = [i \in IncidentIds |-> IncidentRow("tA", "OPEN", Null, 0)]
  /\ timeline = [i \in IncidentIds |-> CreationEvent(i)]
  /\ auditLog = [i \in IncidentIds |-> CreationAudit(i)]
  /\ reqs = [k \in RequestIds |-> NotStarted]

Init ==
  /\ InitIncidents
  /\ EmptyQueue
  /\ EmptyFlags
  /\ EmptyServices

\* ========================= PATCH /api/incidents/{id}  (api route)
\* session, tenant context, findFirst and the transition check: all of it
\* happens before the transaction is opened.
PATCH_Read(k, user, tenantId, id, newStatus, message) ==
  /\ CanStart(k)
  /\ IF user = NoUser \/ tenantId = Absent
     THEN Answer(k, "unauthorized")
     ELSE IF ~findFirst(id, tenantId)
     THEN Answer(k, "not_found")
     ELSE IF newStatus \notin validTransitions(incidents[id].status)
     THEN Answer(k, "invalid_transition")
     ELSE Proceed(k,
            [NotStarted EXCEPT !.pc = "patch_tx", !.op = "PATCH",
               !.user = user, !.tenantId = tenantId, !.ids = {id},
               !.newStatus = newStatus, !.message = message,
               !.snap = [i \in {id} |-> SnapshotOf(incidents[id])]])
  /\ UNCHANGED beyondIncidents

\* PATCH_Commit without the NOTE event of a request that carries a message
PATCH_Commit_noNote(k) ==
  /\ reqs[k].pc = "patch_tx"
  /\ LET r == reqs[k]
         id == CHOOSE i \in r.ids : TRUE
         updated == Touch([incidents[id] EXCEPT !.status = r.newStatus])
     IN /\ incidents' = [incidents EXCEPT ![id] = updated]
        /\ timeline' = Append(timeline,
              TimelineEvent(id, r.tenantId, "STATUS_CHANGE",
                            r.snap[id].status, r.newStatus, "", r.user))
        /\ auditLog' = Append(auditLog,
              AuditRow(r.tenantId, r.user, "UPDATE", id,
                       r.snap[id], SnapshotOf(updated)))
  /\ reqs' = [reqs EXCEPT ![k] = Done("ok")]
  /\ UNCHANGED beyondIncidents

\* prisma.$transaction: update, STATUS_CHANGE event, NOTE if message, audit
PATCH_Commit(k) ==
  /\ reqs[k].pc = "patch_tx"
  /\ LET r == reqs[k]
         id == CHOOSE i \in r.ids : TRUE
         updated == Touch([incidents[id] EXCEPT !.status = r.newStatus])
         ev == TimelineEvent(id, r.tenantId, "STATUS_CHANGE",
                             r.snap[id].status, r.newStatus, "", r.user)
         note == TimelineEvent(id, r.tenantId, "NOTE",
                               Absent, Absent, r.message, r.user)
     IN /\ incidents' = [incidents EXCEPT ![id] = updated]
        /\ timeline' = IF r.message # ""
                       THEN timeline \o <<ev, note>>
                       ELSE Append(timeline, ev)
        /\ auditLog' = Append(auditLog,
              AuditRow(r.tenantId, r.user, "UPDATE", id,
                       r.snap[id], SnapshotOf(updated)))
  /\ reqs' = [reqs EXCEPT ![k] = Done("ok")]
  /\ UNCHANGED beyondIncidents

\* ========================= server actions (app/actions/incidents.ts)
\* requireTenantAccess throws without a membership (the catch answers with
\* the generic failure); canEdit refuses a VIEWER unless DevMode.
Gate(user, tenantId) ==
  LET role == getUserTenantRole(user, tenantId)
  IN IF role = "NONE" THEN "error"
     ELSE IF ~canEdit(role) /\ ~DevMode THEN "forbidden"
     ELSE "pass"

\* changeIncidentStatus with the update issued before the transition check
changeIncidentStatus_Read_writesFirst(k, user, tenantId, id, newStatus) ==
  /\ CanStart(k)
  /\ IF Gate(user, tenantId) # "pass"
     THEN Answer(k, Gate(user, tenantId))
     ELSE IF ~findFirst(id, tenantId)
     THEN Answer(k, "not_found")
     ELSE IF ~isValidTransition(incidents[id].status, newStatus)
     THEN /\ incidents' = [incidents EXCEPT
                             ![id] = Touch([@ EXCEPT !.status = newStatus])]
          /\ reqs' = [reqs EXCEPT ![k] = Done("invalid_transition")]
          /\ UNCHANGED <<timeline, auditLog>>
     ELSE Proceed(k,
            [NotStarted EXCEPT !.pc = "change_tx",
               !.op = "changeIncidentStatus",
               !.user = user, !.tenantId = tenantId, !.ids = {id},
               !.newStatus = newStatus,
               !.snap = [i \in {id} |-> SnapshotOf(incidents[id])]])
  /\ UNCHANGED beyondIncidents

changeIncidentStatus_Read(k, user, tenantId, id, newStatus) ==
  /\ CanStart(k)
  /\ IF Gate(user, tenantId) # "pass"
     THEN Answer(k, Gate(user, tenantId))
     ELSE IF ~findFirst(id, tenantId)
     THEN Answer(k, "not_found")
     ELSE IF ~isValidTransition(incidents[id].status, newStatus)
     THEN Answer(k, "invalid_transition")
     ELSE Proceed(k,
            [NotStarted EXCEPT !.pc = "change_tx",
               !.op = "changeIncidentStatus",
               !.user = user, !.tenantId = tenantId, !.ids = {id},
               !.newStatus = newStatus,
               !.snap = [i \in {id} |-> SnapshotOf(incidents[id])]])
  /\ UNCHANGED beyondIncidents

changeIncidentStatus_Commit(k) ==
  /\ reqs[k].pc = "change_tx"
  /\ LET r == reqs[k]
         id == CHOOSE i \in r.ids : TRUE
     IN /\ incidents' = [incidents EXCEPT
                           ![id] = Touch([@ EXCEPT !.status = r.newStatus])]
        /\ timeline' = Append(timeline,
              TimelineEvent(id, r.tenantId, "STATUS_CHANGE",
                            r.snap[id].status, r.newStatus, "", r.user))
        /\ auditLog' = Append(auditLog,
              AuditRow(r.tenantId, r.user, "STATUS_CHANGE", id,
                       Snapshot(r.snap[id].status, Absent),
                       Snapshot(r.newStatus, Absent)))
  /\ reqs' = [reqs EXCEPT ![k] = Done("ok")]
  /\ UNCHANGED beyondIncidents

updateIncident_Read(k, user, tenantId, id, assigneeId) ==
  /\ CanStart(k)
  /\ IF Gate(user, tenantId) # "pass"
     THEN Answer(k, Gate(user, tenantId))
     ELSE IF ~findFirst(id, tenantId)
     THEN Answer(k, "not_found")
     ELSE Proceed(k,
            [NotStarted EXCEPT !.pc = "update_tx", !.op = "updateIncident",
               !.user = user, !.tenantId = tenantId, !.ids = {id},
               !.assigneeId = assigneeId,
               !.snap = [i \in {id} |-> SnapshotOf(incidents[id])]])
  /\ UNCHANGED beyondIncidents

\* C39 mutant: an update schema that lets a status field through to
\* updateData
updateIncident_Commit_withStatus(k) ==
  /\ reqs[k].pc = "update_tx"
  /\ LET r == reqs[k]
         id == CHOOSE i \in r.ids : TRUE
         updated == Touch(IF r.assigneeId = Absent
                          THEN [incidents[id] EXCEPT !.status = "RESOLVED"]
                          ELSE [incidents[id] EXCEPT
                                  !.assigneeId = r.assigneeId,
                                  !.status = "RESOLVED"])
     IN /\ incidents' = [incidents EXCEPT ![id] = updated]
        /\ auditLog' = Append(auditLog,
              AuditRow(r.tenantId, r.user, "UPDATE", id,
                       r.snap[id], SnapshotOf(updated)))
        /\ UNCHANGED timeline
  /\ reqs' = [reqs EXCEPT ![k] = Done("ok")]
  /\ UNCHANGED beyondIncidents

\* updateData holds the submitted fields (title, severity, service,
\* environment, assigneeId) and always the tags; status is not among them.
updateIncident_Commit(k) ==
  /\ reqs[k].pc = "update_tx"
  /\ LET r == reqs[k]
         id == CHOOSE i \in r.ids : TRUE
         updated == Touch(IF r.assigneeId = Absent THEN incidents[id]
                          ELSE [incidents[id] EXCEPT
                                  !.assigneeId = r.assigneeId])
     IN /\ incidents' = [incidents EXCEPT ![id] = updated]
        /\ auditLog' = Append(auditLog,
              AuditRow(r.tenantId, r.user, "UPDATE", id,
                       r.snap[id], SnapshotOf(updated)))
        /\ UNCHANGED timeline
  /\ reqs' = [reqs EXCEPT ![k] = Done("ok")]
  /\ UNCHANGED beyondIncidents

bulkUpdateStatus_Read(k, user, tenantId, ids, newStatus) ==
  /\ CanStartBulk(k)
  /\ LET found == findMany(ids, tenantId)
         invalidTransitions ==
           {i \in found : ~isValidTransition(incidents[i].status, newStatus)}
     IN IF Gate(user, tenantId) # "pass"
        THEN Answer(k, Gate(user, tenantId))
        ELSE IF invalidTransitions # {}
        THEN Answer(k, "invalid_transition")
        ELSE Proceed(k,
               [NotStarted EXCEPT !.pc = "bulkStatus_tx",
                  !.op = "bulkUpdateStatus",
                  !.user = user, !.tenantId = tenantId, !.ids = ids,
                  !.newStatus = newStatus,
                  !.snap = [i \in found |-> SnapshotOf(incidents[i])]])
  /\ UNCHANGED beyondIncidents

bulkUpdateStatus_Commit(k) ==
  /\ reqs[k].pc = "bulkStatus_tx"
  /\ LET r == reqs[k]
         rows == DOMAIN r.snap
         Ev(i) == TimelineEvent(i, r.tenantId, "STATUS_CHANGE",
                                r.snap[i].status, r.newStatus, "", r.user)
         Au(i) == AuditRow(r.tenantId, r.user, "BULK_STATUS_CHANGE", i,
                           Snapshot(r.snap[i].status, Absent),
                           Snapshot(r.newStatus, Absent))
     IN /\ incidents' = [i \in DOMAIN incidents |->
                           IF i \in rows
                           THEN Touch([incidents[i] EXCEPT
                                         !.status = r.newStatus])
                           ELSE incidents[i]]
        /\ \E o \in Orders(rows) :
             /\ timeline' = timeline \o [n \in DOMAIN o |-> Ev(o[n])]
             /\ auditLog' = auditLog \o [n \in DOMAIN o |-> Au(o[n])]
  /\ reqs' = [reqs EXCEPT ![k] = Done("ok")]
  /\ UNCHANGED beyondIncidents

bulkAssign_Read(k, user, tenantId, ids, assigneeId) ==
  /\ CanStartBulk(k)
  /\ IF Gate(user, tenantId) # "pass"
     THEN Answer(k, Gate(user, tenantId))
     ELSE IF getUserTenantRole(assigneeId, tenantId) = "NONE"
     THEN Answer(k, "assignee_not_member")
     ELSE Proceed(k,
            [NotStarted EXCEPT !.pc = "bulkAssign_tx", !.op = "bulkAssign",
               !.user = user, !.tenantId = tenantId, !.ids = ids,
               !.assigneeId = assigneeId,
               !.snap = [i \in findMany(ids, tenantId) |->
                           SnapshotOf(incidents[i])]])
  /\ UNCHANGED beyondIncidents

bulkAssign_Commit(k) ==
  /\ reqs[k].pc = "bulkAssign_tx"
  /\ LET r == reqs[k]
         rows == DOMAIN r.snap
         Ev(i) == TimelineEvent(i, r.tenantId, "ACTION", Absent, Absent,
                                AssignedTo(r.assigneeId), r.user)
         Au(i) == AuditRow(r.tenantId, r.user, "BULK_ASSIGN", i,
                           Snapshot(Absent, r.snap[i].assigneeId),
                           Snapshot(Absent, r.assigneeId))
     IN /\ incidents' = [i \in DOMAIN incidents |->
                           IF i \in rows
                           THEN Touch([incidents[i] EXCEPT
                                         !.assigneeId = r.assigneeId])
                           ELSE incidents[i]]
        /\ \E o \in Orders(rows) :
             /\ timeline' = timeline \o [n \in DOMAIN o |-> Ev(o[n])]
             /\ auditLog' = auditLog \o [n \in DOMAIN o |-> Au(o[n])]
  /\ reqs' = [reqs EXCEPT ![k] = Done("ok")]
  /\ UNCHANGED beyondIncidents

\* ========================= POST /api/incidents/bulk-action  (api route)
\* No transaction anywhere in this handler: findMany, then updateMany, then
\* one create per row, each its own statement.
POST_bulk_status_Read(k, user, tenantId, ids, status, message) ==
  /\ CanStartBulk(k)
  /\ IF user = NoUser \/ tenantId = Absent
     THEN Answer(k, "unauthorized")
     ELSE IF findMany(ids, tenantId) = {}
     THEN Answer(k, "not_found")
     ELSE IF status = Absent
     THEN Answer(k, "bad_request")
     ELSE Proceed(k,
            [NotStarted EXCEPT !.pc = "bulk_updateMany",
               !.op = "change-status",
               !.user = user, !.tenantId = tenantId, !.ids = ids,
               !.newStatus = status, !.message = message,
               !.snap = [i \in findMany(ids, tenantId) |->
                           SnapshotOf(incidents[i])]])
  /\ UNCHANGED beyondIncidents

POST_bulk_assign_Read(k, user, tenantId, ids, assigneeId) ==
  /\ CanStartBulk(k)
  /\ IF user = NoUser \/ tenantId = Absent
     THEN Answer(k, "unauthorized")
     ELSE IF findMany(ids, tenantId) = {}
     THEN Answer(k, "not_found")
     ELSE IF assigneeId = Absent
     THEN Answer(k, "bad_request")
     ELSE IF getUserTenantRole(assigneeId, tenantId) = "NONE"
     THEN Answer(k, "not_found")
     ELSE Proceed(k,
            [NotStarted EXCEPT !.pc = "bulk_updateMany",
               !.op = "assign-engineer",
               !.user = user, !.tenantId = tenantId, !.ids = ids,
               !.assigneeId = assigneeId,
               !.snap = [i \in findMany(ids, tenantId) |->
                           SnapshotOf(incidents[i])]])
  /\ UNCHANGED beyondIncidents

\* prisma.incident.updateMany({ where: { id: { in }, tenantId }, data })
POST_bulk_UpdateMany(k) ==
  /\ reqs[k].pc = "bulk_updateMany"
  /\ LET r == reqs[k]
         hit == findMany(r.ids, r.tenantId)
     IN /\ incidents' = [i \in DOMAIN incidents |->
             IF i \notin hit THEN incidents[i]
             ELSE IF r.op = "change-status"
             THEN Touch([incidents[i] EXCEPT !.status = r.newStatus])
             ELSE Touch([incidents[i] EXCEPT !.assigneeId = r.assigneeId])]
        /\ reqs' = [reqs EXCEPT ![k] =
             [r EXCEPT !.pc = IF r.op = "change-status"
                              THEN "bulk_event" ELSE "bulk_audit",
                       !.todo = DOMAIN r.snap]]
  /\ UNCHANGED <<timeline, auditLog>>
  /\ UNCHANGED beyondIncidents

\* change-status loop, first statement: timelineEvent.create for one row
POST_bulk_Event(k) ==
  /\ reqs[k].pc = "bulk_event"
  /\ LET r == reqs[k]
     IN \E i \in r.todo :
          /\ timeline' = Append(timeline,
                TimelineEvent(i, r.tenantId, "STATUS_CHANGE",
                              r.snap[i].status, r.newStatus, r.message,
                              r.user))
          /\ reqs' = [reqs EXCEPT ![k] =
                        [r EXCEPT !.pc = "bulk_audit", !.cur = i]]
  /\ UNCHANGED <<incidents, auditLog>>
  /\ UNCHANGED beyondIncidents

\* auditLog.create for one row: the only statement of the assign loop, the
\* second statement of the change-status loop
POST_bulk_Audit(k) ==
  /\ reqs[k].pc = "bulk_audit"
  /\ LET r == reqs[k]
     IN \E i \in r.todo :
          /\ r.op = "change-status" => i = r.cur
          /\ auditLog' = Append(auditLog,
                AuditRow(r.tenantId, r.user, "UPDATE", i, r.snap[i],
                   IF r.op = "change-status"
                   THEN Snapshot(r.newStatus, r.snap[i].assigneeId)
                   ELSE Snapshot(r.snap[i].status, r.assigneeId)))
          /\ reqs' = [reqs EXCEPT ![k] =
                IF r.todo = {i} THEN Done("ok")
                ELSE [r EXCEPT !.todo = @ \ {i}, !.cur = 0,
                         !.pc = IF r.op = "change-status"
                                THEN "bulk_event" ELSE "bulk_audit"]]
  /\ UNCHANGED <<incidents, timeline>>
  /\ UNCHANGED beyondIncidents

\* ========================= store errors
\* A store error inside a transaction rolls the transaction back; between
\* the statements of a handler without a transaction it leaves what was
\* already written.  Either way the handler answers with its failure.
Fail(k) ==
  /\ k \in InFlight
  /\ Answer(k, "error")
  /\ UNCHANGED beyondIncidents

\* ========================= the inputs
Messages == {"", "note"}
Callers == Users \cup {NoUser}
Selections == (SUBSET IncidentIds) \ {{}}

\* Single-incident handlers: the two status-change entry points and
\* updateIncident.
Next ==
  \/ \E k \in RequestIds, u \in Callers, i \in IncidentIds,
        s \in Status, m \in Messages :
        \E t \in SessionTenants(u) : PATCH_Read(k, u, t, i, s, m)
  \/ \E k \in RequestIds : PATCH_Commit(k)
  \/ \E k \in RequestIds, u \in Callers, t \in Tenants, i \in IncidentIds,
        s \in Status : changeIncidentStatus_Read(k, u, t, i, s)
  \/ \E k \in RequestIds : changeIncidentStatus_Commit(k)
  \/ \E k \in RequestIds, u \in Callers, t \in Tenants, i \in IncidentIds,
        a \in Users \cup {Absent} : updateIncident_Read(k, u, t, i, a)
  \/ \E k \in RequestIds : updateIncident_Commit(k)
  \/ \E k \in RequestIds : Fail(k)

Spec == Init /\ [][Next]_vars

\* Bulk status change: the change-status branch of the bulk-action route and
\* the bulkUpdateStatus server action.
NextBulk ==
  \/ \E k \in RequestIds, u \in Callers, t \in Tenants, S \in Selections,
        s \in Status : bulkUpdateStatus_Read(k, u, t, S, s)
  \/ \E k \in RequestIds : bulkUpdateStatus_Commit(k)
  \/ \E k \in RequestIds, u \in Callers, S \in Selections,
        s \in Status \cup {Absent}, m \in Messages :
        \E t \in SessionTenants(u) : POST_bulk_status_Read(k, u, t, S, s, m)
  \/ \E k \in RequestIds : POST_bulk_UpdateMany(k)
  \/ \E k \in RequestIds : POST_bulk_Event(k)
  \/ \E k \in RequestIds : POST_bulk_Audit(k)
  \/ \E k \in RequestIds : Fail(k)

SpecBulk == Init /\ [][NextBulk]_vars

\* Bulk assignment: the assign-engineer branch of the bulk-action route and
\* the bulkAssign server action.
NextAssign ==
  \/ \E k \in RequestIds, u \in Callers, t \in Tenants, S \in Selections,
        a \in Users : bulkAssign_Read(k, u, t, S, a)
  \/ \E k \in RequestIds : bulkAssign_Commit(k)
  \/ \E k \in RequestIds, u \in Callers, S \in Selections,
        a \in Users \cup {Absent} :
        \E t \in SessionTenants(u) : POST_bulk_assign_Read(k, u, t, S, a)
  \/ \E k \in RequestIds : POST_bulk_UpdateMany(k)
  \/ \E k \in RequestIds : POST_bulk_Audit(k)
  \/ \E k \in RequestIds : Fail(k)

SpecAssign == Init /\ [][NextAssign]_vars

\* ========================= creating an incident
\* the id of the row that incident.create inserts
NewId == Cardinality(DOMAIN incidents) + 1

Insert(id, row) ==
  [i \in DOMAIN incidents \cup {id} |->
     IF i = id THEN row ELSE incidents[i]]

\* POST /api/incidents: session and tenant context, then incident.create as
\* a statement of its own
POST_create_Incident(k, user, tenantId) ==
  /\ CanStart(k)
  /\ IF user = NoUser \/ tenantId = Absent
     THEN Answer(k, "unauthorized")
     ELSE /\ incidents' = Insert(NewId, IncidentRow(tenantId, "OPEN", Null, 0))
          /\ reqs' = [reqs EXCEPT ![k] =
                [NotStarted EXCEPT !.pc = "create_event", !.op = "POST",
                   !.user = user, !.tenantId = tenantId, !.cur = NewId]]
          /\ UNCHANGED <<timeline, auditLog>>
  /\ UNCHANGED beyondIncidents

\* second statement: the initial STATUS_CHANGE event
POST_create_Event(k) ==
  /\ reqs[k].pc = "create_event"
  /\ LET r == reqs[k]
     IN timeline' = Append(timeline,
          TimelineEvent(r.cur, r.tenantId, "STATUS_CHANGE", Null, "OPEN", "",
                        r.user))
  /\ reqs' = [reqs EXCEPT ![k].pc = "create_audit"]
  /\ UNCHANGED <<incidents, auditLog>>
  /\ UNCHANGED beyondIncidents

\* third statement: the CREATE audit row
POST_create_Audit(k) ==
  /\ reqs[k].pc = "create_audit"
  /\ LET r == reqs[k]
     IN auditLog' = Append(auditLog,
          AuditRow(r.tenantId, r.user, "CREATE", r.cur, NoData,
                   Snapshot("OPEN", Null)))
  /\ reqs' = [reqs EXCEPT ![k] = Done("created")]
  /\ UNCHANGED <<incidents, timeline>>
  /\ UNCHANGED beyondIncidents

\* createIncident (server action): role check, then the transaction
createIncident_Read(k, user, tenantId) ==
  /\ CanStart(k)
  /\ IF Gate(user, tenantId) # "pass"
     THEN Answer(k, Gate(user, tenantId))
     ELSE Proceed(k,
            [NotStarted EXCEPT !.pc = "create_tx", !.op = "createIncident",
               !.user = user, !.tenantId = tenantId])
  /\ UNCHANGED beyondIncidents

\* prisma.$transaction: incident, initial event and audit row together
createIncident_Commit(k) ==
  /\ reqs[k].pc = "create_tx"
  /\ LET r == reqs[k]
     IN /\ incidents' = Insert(NewId, IncidentRow(r.tenantId, "OPEN", Null, 0))
        /\ timeline' = Append(timeline,
              TimelineEvent(NewId, r.tenantId, "STATUS_CHANGE", Null, "OPEN",
                            "", r.user))
        /\ auditLog' = Append(auditLog,
              AuditRow(r.tenantId, r.user, "CREATE", NewId, NoData,
                       Snapshot("OPEN", Null)))
  /\ reqs' = [reqs EXCEPT ![k] = Done("created")]
  /\ UNCHANGED beyondIncidents

NextCreate ==
  \/ \E k \in RequestIds, u \in Callers :
        \E t \in SessionTenants(u) : POST_create_Incident(k, u, t)
  \/ \E k \in RequestIds : POST_create_Event(k)
  \/ \E k \in RequestIds : POST_create_Audit(k)
  \/ \E k \in RequestIds, u \in Callers, t \in Tenants :
        createIncident_Read(k, u, t)
  \/ \E k \in RequestIds : createIncident_Commit(k)
  \/ \E k \in RequestIds, u \in Callers, i \in IncidentIds,
        s \in Status, m \in Messages :
        \E t \in SessionTenants(u) : PATCH_Read(k, u, t, i, s, m)
  \/ \E k \in RequestIds : PATCH_Commit(k)
  \/ \E k \in RequestIds : Fail(k)

SpecCreate == Init /\ [][NextCreate]_vars

\* ========================= reads, and the tenant they are scoped by
\* what a response carries of a row: its table, the tenant that owns it, its
\* key
Row(table, tenantId, key) == [table |-> table, tenantId |-> tenantId, key |-> key]

\* the answer of a read: status code, the caller and its tenant context, and
\* the rows in the body
Respond(k, c, user, tenantId, rows) ==
  /\ reqs' = [reqs EXCEPT ![k] =
                [Done(c) EXCEPT !.user = user, !.tenantId = tenantId,
                                !.returned = rows]]
  /\ UNCHANGED store

\* the Membership rows of a tenant
MembersOf(tenantId) ==
  {Row("membership", tenantId, u) :
     u \in {v \in Users : Membership[v][tenantId] # "NONE"}}

\* GET /api/tenants/{tenantId}/members: needs a session user, then looks the
\* tenant up by the id or slug of the URL
GET_members(k, user, tenantId, urlTenant) ==
  /\ CanStart(k)
  /\ IF user = NoUser
     THEN Answer(k, "unauthorized")
     ELSE IF urlTenant \notin Tenants
     THEN Answer(k, "not_found")
     ELSE Respond(k, "ok", user, tenantId, MembersOf(urlTenant))
  /\ UNCHANGED beyondIncidents

\* GET /api/incidents/{id}: findFirst by id and the tenant of the context,
\* with the incident's timeline included
GET_incident(k, user, tenantId, id) ==
  /\ CanStart(k)
  /\ IF user = NoUser \/ tenantId = Absent
     THEN Answer(k, "unauthorized")
     ELSE IF ~findFirst(id, tenantId)
     THEN Answer(k, "not_found")
     ELSE Respond(k, "ok", user, tenantId,
            {Row("incident", incidents[id].tenantId, id)} \cup
            {Row("timeline", timeline[n].tenantId, n) :
               n \in {m \in 1..Len(timeline) : timeline[m].incidentId = id}})
  /\ UNCHANGED beyondIncidents

\* GET /api/incidents: findMany where tenantId is the tenant of the context
GET_incidents(k, user, tenantId) ==
  /\ CanStart(k)
  /\ IF user = NoUser \/ tenantId = Absent
     THEN Answer(k, "unauthorized")
     ELSE Respond(k, "ok", user, tenantId,
            {Row("incident", incidents[i].tenantId, i) :
               i \in findMany(DOMAIN incidents, tenantId)})
  /\ UNCHANGED beyondIncidents

\* The store with an incident in each tenant: incident 1 created by alice in
\* tA, the others by bob in tB.
InitTenant ==
  LET owner(i) == IF i = 1 THEN "tA" ELSE "tB"
      author(i) == IF i = 1 THEN "alice" ELSE "bob"
  IN /\ incidents = [i \in IncidentIds |-> IncidentRow(owner(i), "OPEN", Null, 0)]
     /\ timeline = [i \in IncidentIds |->
          TimelineEvent(i, owner(i), "STATUS_CHANGE", Null, "OPEN", "", author(i))]
     /\ auditLog = [i \in IncidentIds |->
          AuditRow(owner(i), author(i), "CREATE", i, NoData,
                   Snapshot("OPEN", Null))]
     /\ reqs = [k \in RequestIds |-> NotStarted]
     /\ EmptyQueue
     /\ EmptyFlags
     /\ EmptyServices

NextTenant ==
  \/ \E k \in RequestIds, u \in Callers, url \in Tenants \cup {Absent} :
        \E t \in SessionTenants(u) : GET_members(k, u, t, url)
  \/ \E k \in RequestIds, u \in Callers, i \in IncidentIds :
        \E t \in SessionTenants(u) : GET_incident(k, u, t, i)
  \/ \E k \in RequestIds, u \in Callers :
        \E t \in SessionTenants(u) : GET_incidents(k, u, t)
  \/ \E k \in RequestIds, u \in Callers, i \in IncidentIds,
        s \in Status, m \in Messages :
        \E t \in SessionTenants(u) : PATCH_Read(k, u, t, i, s, m)
  \/ \E k \in RequestIds : PATCH_Commit(k)
  \/ \E k \in RequestIds, u \in Callers, S \in Selections,
        s \in Status, m \in Messages :
        \E t \in SessionTenants(u) : POST_bulk_status_Read(k, u, t, S, s, m)
  \/ \E k \in RequestIds : POST_bulk_UpdateMany(k)
  \/ \E k \in RequestIds : POST_bulk_Event(k)
  \/ \E k \in RequestIds : POST_bulk_Audit(k)
  \/ \E k \in RequestIds : Fail(k)

SpecTenant == InitTenant /\ [][NextTenant]_vars

\* ========================= timeline notes and actions
\* addIncidentNote (server action): role check and findFirst, then one
\* timelineEvent.create; no transaction and no auditLog.create
addIncidentNote_Read(k, user, tenantId, id, message) ==
  /\ CanStart(k)
  /\ IF Gate(user, tenantId) # "pass"
     THEN Answer(k, Gate(user, tenantId))
     ELSE IF ~findFirst(id, tenantId)
     THEN Answer(k, "not_found")
     ELSE Proceed(k,
            [NotStarted EXCEPT !.pc = "note_create", !.op = "addIncidentNote",
               !.user = user, !.tenantId = tenantId, !.ids = {id},
               !.message = message, !.evType = "NOTE"])
  /\ UNCHANGED beyondIncidents

\* addIncidentAction: the same handler with type ACTION
addIncidentAction_Read(k, user, tenantId, id, message) ==
  /\ CanStart(k)
  /\ IF Gate(user, tenantId) # "pass"
     THEN Answer(k, Gate(user, tenantId))
     ELSE IF ~findFirst(id, tenantId)
     THEN Answer(k, "not_found")
     ELSE Proceed(k,
            [NotStarted EXCEPT !.pc = "note_create",
               !.op = "addIncidentAction",
               !.user = user, !.tenantId = tenantId, !.ids = {id},
               !.message = message, !.evType = "ACTION"])
  /\ UNCHANGED beyondIncidents

\* createTimelineEventSchema: type NOTE or ACTION, message of length >= 1
TimelineTypes == {"NOTE", "ACTION", "STATUS_CHANGE"}

\* C33 mutant: the schema with type: z.enum of all three event types
POST_timeline_Read_anyType(k, user, tenantId, id, type, message) ==
  /\ CanStart(k)
  /\ IF user = NoUser \/ tenantId = Absent
     THEN Answer(k, "unauthorized")
     ELSE IF ~findFirst(id, tenantId)
     THEN Answer(k, "not_found")
     ELSE IF type \notin TimelineTypes \/ message = ""
     THEN Answer(k, "bad_request")
     ELSE Proceed(k,
            [NotStarted EXCEPT !.pc = "note_create", !.op = "POST timeline",
               !.user = user, !.tenantId = tenantId, !.ids = {id},
               !.message = message, !.evType = type])
  /\ UNCHANGED beyondIncidents

\* POST /api/incidents/{id}/timeline (api route)
POST_timeline_Read(k, user, tenantId, id, type, message) ==
  /\ CanStart(k)
  /\ IF user = NoUser \/ tenantId = Absent
     THEN Answer(k, "unauthorized")
     ELSE IF ~findFirst(id, tenantId)
     THEN Answer(k, "not_found")
     ELSE IF type \notin {"NOTE", "ACTION"} \/ message = ""
     THEN Answer(k, "bad_request")
     ELSE Proceed(k,
            [NotStarted EXCEPT !.pc = "note_create", !.op = "POST timeline",
               !.user = user, !.tenantId = tenantId, !.ids = {id},
               !.message = message, !.evType = type])
  /\ UNCHANGED beyondIncidents

\* prisma.timelineEvent.create of the three handlers above, and the answer
timelineEvent_Create(k) ==
  /\ reqs[k].pc = "note_create"
  /\ LET r == reqs[k]
         id == CHOOSE i \in r.ids : TRUE
     IN timeline' = Append(timeline,
          TimelineEvent(id, r.tenantId, r.evType, Absent, Absent, r.message,
                        r.user))
  /\ reqs' = [reqs EXCEPT ![k] =
                Done(IF reqs[k].op = "POST timeline" THEN "created" ELSE "ok")]
  /\ UNCHANGED <<incidents, auditLog>>
  /\ UNCHANGED beyondIncidents

\* Notes and actions next to a status change, which does write its audit row
NextNote ==
  \/ \E k \in RequestIds, u \in Callers, t \in Tenants, i \in IncidentIds,
        m \in Messages : addIncidentNote_Read(k, u, t, i, m)
  \/ \E k \in RequestIds, u \in Callers, t \in Tenants, i \in IncidentIds,
        m \in Messages : addIncidentAction_Read(k, u, t, i, m)
  \/ \E k \in RequestIds, u \in Callers, i \in IncidentIds,
        ty \in TimelineTypes, m \in Messages :
        \E t \in SessionTenants(u) : POST_timeline_Read(k, u, t, i, ty, m)
  \/ \E k \in RequestIds : timelineEvent_Create(k)
  \/ \E k \in RequestIds, u \in Callers, t \in Tenants, i \in IncidentIds,
        s \in Status : changeIncidentStatus_Read(k, u, t, i, s)
  \/ \E k \in RequestIds : changeIncidentStatus_Commit(k)
  \/ \E k \in RequestIds : Fail(k)

SpecNote == Init /\ [][NextNote]_vars

\* ========================= the job queue (lib/job-queue.ts)
BatchSize == 5        \* getPendingJobs(5) in processLoop
RetryLimit == 3       \* job.retries < 3 in markJobFailed

AttachmentRow(incidentId, tenantId, scanStatus, exists) ==
  [incidentId |-> incidentId, tenantId |-> tenantId,
   scanStatus |-> scanStatus, exists |-> exists]

\* runs counts the executions of the job's handler (it is not a column)
JobRow(tenantId, type, attachmentId) ==
  [tenantId |-> tenantId, type |-> type, attachmentId |-> attachmentId,
   status |-> "PENDING", retries |-> 0, result |-> Null, error |-> Null,
   runs |-> 0]

\* the elements of a set of numbers in ascending order
Ascending(S) ==
  CHOOSE f \in [1..Cardinality(S) -> S] :
    \A a, b \in 1..Cardinality(S) : a < b => f[a] < f[b]

\* findMany({ where: { status: "PENDING" }, orderBy: { createdAt: "asc" },
\* take: limit })
getPendingJobs(limit) ==
  LET pending == Ascending({j \in 1..Len(jobs) : jobs[j].status = "PENDING"})
  IN IF Len(pending) <= limit THEN pending ELSE SubSeq(pending, 1, limit)

\* processLoop, first statement: a tick fetches the pending jobs; a pass
\* with nothing to do ends at once
processLoop_Poll(p) ==
  /\ passes[p].pc = "idle"
  /\ getPendingJobs(BatchSize) # <<>>
  /\ passes' = [passes EXCEPT ![p] =
                  [IdlePass EXCEPT !.pc = "mark",
                                   !.list = getPendingJobs(BatchSize),
                                   !.job = getPendingJobs(BatchSize)[1]]]
  /\ UNCHANGED <<services, flagTables, store, reqs, attachments, jobs>>

\* processJob, first statement: update({ where: { id }, data: { status:
\* "PROCESSING" } })
markJobProcessing(p) ==
  /\ passes[p].pc = "mark"
  /\ jobs' = [jobs EXCEPT ![passes[p].job].status = "PROCESSING"]
  /\ passes' = [passes EXCEPT ![p].pc = "handle"]
  /\ UNCHANGED <<services, flagTables, store, reqs, attachments>>

\* the handler of SCAN_ATTACHMENT: isClean is drawn by Math.random, then
\* attachment.update, which throws when the row is gone
processAttachmentScan(p) ==
  /\ passes[p].pc = "handle"
  /\ LET j == passes[p].job
         a == jobs[j].attachmentId
     IN /\ jobs' = [jobs EXCEPT ![j].runs = @ + 1]
        /\ IF attachments[a].exists
           THEN \E isClean \in BOOLEAN :
                  LET scan == IF isClean THEN "CLEAN" ELSE "INFECTED"
                  IN /\ attachments' =
                          [attachments EXCEPT ![a].scanStatus = scan]
                     /\ passes' = [passes EXCEPT ![p].pc = "complete",
                                                 ![p].out = scan]
           ELSE /\ passes' = [passes EXCEPT ![p].pc = "failed",
                                            ![p].out = "error"]
                /\ UNCHANGED attachments
  /\ UNCHANGED <<services, flagTables, store, reqs>>

\* the for loop of processLoop moves to its next job, or the pass ends
NextJob(pass) ==
  IF Len(pass.list) > 1
  THEN [IdlePass EXCEPT !.pc = "mark", !.list = Tail(pass.list),
                        !.job = pass.list[2]]
  ELSE IdlePass

markJobCompleted(p) ==
  /\ passes[p].pc = "complete"
  /\ jobs' = [jobs EXCEPT ![passes[p].job].status = "COMPLETED",
                          ![passes[p].job].result = passes[p].out]
  /\ passes' = [passes EXCEPT ![p] = NextJob(passes[p])]
  /\ UNCHANGED <<services, flagTables, store, reqs, attachments>>

\* markJobFailed, first statement: job.findUnique
markJobFailed_Read(p) ==
  /\ passes[p].pc = "failed"
  /\ passes' = [passes EXCEPT ![p].pc = "failed_write",
                              ![p].read = jobs[passes[p].job].retries]
  /\ UNCHANGED <<services, flagTables, store, reqs, attachments, jobs>>

\* markJobFailed that leaves the status alone once the retries are used up
markJobFailed_Write_noFailed(p) ==
  /\ passes[p].pc = "failed_write"
  /\ jobs' = [jobs EXCEPT
       ![passes[p].job].status =
          IF passes[p].read < RetryLimit THEN "PENDING" ELSE @,
       ![passes[p].job].error = passes[p].out,
       ![passes[p].job].retries = @ + 1]
  /\ passes' = [passes EXCEPT ![p] = NextJob(passes[p])]
  /\ UNCHANGED <<services, flagTables, store, reqs, attachments>>

\* markJobFailed, second statement: the status comes from the row as it was
\* read, retries: { increment: 1 } from the row as it is
markJobFailed_Write(p) ==
  /\ passes[p].pc = "failed_write"
  /\ jobs' = [jobs EXCEPT
       ![passes[p].job].status =
          IF passes[p].read < RetryLimit THEN "PENDING" ELSE "FAILED",
       ![passes[p].job].error = passes[p].out,
       ![passes[p].job].retries = @ + 1]
  /\ passes' = [passes EXCEPT ![p] = NextJob(passes[p])]
  /\ UNCHANGED <<services, flagTables, store, reqs, attachments>>

\* The queue after MaxJobs uploads to incident 1, each with its PENDING
\* job; any of the attachments may have been deleted since.
InitQueue ==
  /\ InitIncidents
  /\ attachments \in [1..MaxJobs ->
        {AttachmentRow(1, "tA", "PENDING", x) : x \in BOOLEAN}]
  /\ jobs = [j \in 1..MaxJobs |-> JobRow("tA", "SCAN_ATTACHMENT", j)]
  /\ passes = [p \in PassIds |-> IdlePass]
  /\ EmptyFlags
  /\ EmptyServices

PassStep(p) ==
  \/ processLoop_Poll(p)
  \/ markJobProcessing(p)
  \/ processAttachmentScan(p)
  \/ markJobCompleted(p)
  \/ markJobFailed_Read(p)
  \/ markJobFailed_Write(p)

NextWorker ==
  \/ \E p \in PassIds : processLoop_Poll(p)
  \/ \E p \in PassIds : markJobProcessing(p)
  \/ \E p \in PassIds : processAttachmentScan(p)
  \/ \E p \in PassIds : markJobCompleted(p)
  \/ \E p \in PassIds : markJobFailed_Read(p)
  \/ \E p \in PassIds : markJobFailed_Write(p)

SpecWorker == InitQueue /\ [][NextWorker]_vars

\* every pass that has started runs on (each await returns), and a tick
\* comes while there are pending jobs
SpecWorkerFair ==
  /\ InitQueue
  /\ [][NextWorker]_vars
  /\ \A p \in PassIds : WF_vars(PassStep(p))

\* ========================= POST /api/incidents/{id}/attachments
\* the files a caller can send: none, one over MAX_FILE_SIZE, one whose type
\* is not in ALLOWED_TYPES, one that passes
Files == {"none", "too_big", "bad_type", "png"}

\* session, tenant context, findFirst and the checks on the file
POST_attachment_Read(k, user, tenantId, id, file) ==
  /\ CanStart(k)
  /\ IF user = NoUser \/ tenantId = Absent
     THEN Answer(k, "unauthorized")
     ELSE IF ~findFirst(id, tenantId)
     THEN Answer(k, "not_found")
     ELSE IF file # "png"
     THEN Answer(k, "bad_request")
     ELSE Proceed(k,
            [NotStarted EXCEPT !.pc = "attachment_create",
               !.op = "POST attachment",
               !.user = user, !.tenantId = tenantId, !.ids = {id}])
  /\ UNCHANGED beyondIncidents

\* prisma.attachment.create with scanStatus PENDING, a statement of its own
POST_attachment_Create(k) ==
  /\ reqs[k].pc = "attachment_create"
  /\ attachments' = Append(attachments,
        AttachmentRow(CHOOSE i \in reqs[k].ids : TRUE, reqs[k].tenantId,
                      "PENDING", TRUE))
  /\ reqs' = [reqs EXCEPT ![k].pc = "attachment_enqueue",
                          ![k].cur = Len(attachments) + 1]
  /\ UNCHANGED <<services, flagTables, store, jobs, passes>>

\* enqueueJob(tenantId, "SCAN_ATTACHMENT", { attachmentId, ... }), then 201
POST_attachment_Enqueue(k) ==
  /\ reqs[k].pc = "attachment_enqueue"
  /\ jobs' = Append(jobs,
                JobRow(reqs[k].tenantId, "SCAN_ATTACHMENT", reqs[k].cur))
  /\ reqs' = [reqs EXCEPT ![k] = Done("created")]
  /\ UNCHANGED <<services, flagTables, store, attachments, passes>>

\* Uploads while the worker runs
NextUpload ==
  \/ \E k \in RequestIds, u \in Callers, i \in IncidentIds, f \in Files :
        \E t \in SessionTenants(u) : POST_attachment_Read(k, u, t, i, f)
  \/ \E k \in RequestIds : POST_attachment_Create(k)
  \/ \E k \in RequestIds : POST_attachment_Enqueue(k)
  \/ \E k \in RequestIds : Fail(k)
  \/ \E p \in PassIds : processLoop_Poll(p)
  \/ \E p \in PassIds : markJobProcessing(p)
  \/ \E p \in PassIds : processAttachmentScan(p)
  \/ \E p \in PassIds : markJobCompleted(p)

SpecUpload == Init /\ [][NextUpload]_vars

\* =====================================================================
\* Properties
\* =====================================================================
\* the three transitions of the incident state machine
LegalPairs ==
  {<<"OPEN", "MITIGATED">>, <<"OPEN", "RESOLVED">>, <<"MITIGATED", "RESOLVED">>}

\* request k takes a step
Acts(k) == reqs'[k] # reqs[k]

\* request k, a single-incident status change, commits in this step
CommitsStatusChange(k) ==
  /\ reqs[k].pc \in {"patch_tx", "change_tx"}
  /\ reqs'[k].pc = "done"
  /\ reqs'[k].code = "ok"

TheId(r) == CHOOSE i \in r.ids : TRUE

\* the rows a step appends to a log
Appended(old, new) == SubSeq(new, Len(old) + 1, Len(new))

IsPrefix(old, new) ==
  Len(old) <= Len(new) /\ SubSeq(new, 1, Len(old)) = old

\* ---------------------------------------------------------------- C1
\* C1: an incident whose status is RESOLVED keeps the status RESOLVED in
\* every later state, whichever status-changing handler runs (here: the
\* bulk-action route and bulkUpdateStatus).
C1_ResolvedIsTerminal ==
  [][\A i \in DOMAIN incidents :
       incidents[i].status = "RESOLVED" => incidents'[i].status = "RESOLVED"]_vars

\* ---------------------------------------------------------------- C2
\* C2: isValidTransition(from, to) is true exactly for OPEN->MITIGATED,
\* OPEN->RESOLVED and MITIGATED->RESOLVED, and false for every other pair,
\* self-transitions and unknown statuses included; so a changeIncidentStatus
\* request is past its check only for one of these three pairs.
C2_TransitionTable ==
  /\ \A from \in Status \cup {Unknown}, to \in Status \cup {Unknown} :
        isValidTransition(from, to) <=> <<from, to>> \in LegalPairs
  /\ \A k \in RequestIds :
        reqs[k].pc = "change_tx" =>
          <<reqs[k].snap[TheId(reqs[k])].status, reqs[k].newStatus>>
            \in LegalPairs

\* a changeIncidentStatus request passed the check and one was refused by it
C2_Witness ==
  /\ \E k \in RequestIds : reqs[k].pc = "change_tx"
  /\ \E k \in RequestIds :
        reqs[k].pc = "done" /\ reqs[k].code = "invalid_transition"

\* ---------------------------------------------------------------- C3
\* a bulk change-status request that is being handled although one of the
\* incidents it selected has no legal transition to its target status
BulkWithIllegalMember(k) ==
  /\ reqs[k].op \in {"change-status", "bulkUpdateStatus"}
  /\ \E i \in DOMAIN reqs[k].snap :
        <<reqs[k].snap[i].status, reqs[k].newStatus>> \notin LegalPairs

\* C3: a bulk change-status request with at least one selected incident that
\* has no legal transition to the target status writes nothing: no step of
\* it changes an incident row, the timeline or the audit log.
C3_BulkIllegalWritesNothing ==
  [][\A k \in RequestIds :
       BulkWithIllegalMember(k) /\ Acts(k) => store' = store]_vars

\* ---------------------------------------------------------------- C4
\* C4: every committed write of a single-incident status change (PATCH or
\* changeIncidentStatus) is a legal transition from the status the row holds
\* immediately before that write, whatever other status changes overlap it.
C4_CommitLegalFromStored ==
  [][\A k \in RequestIds :
       CommitsStatusChange(k) =>
         <<incidents[TheId(reqs[k])].status, reqs[k].newStatus>>
           \in LegalPairs]_vars

\* ---------------------------------------------------------------- C5
\* C5: a request whose tenant context is B is answered with rows of B only
\* (incident, timeline event, member list), and no step of it changes an
\* incident of another tenant or appends a timeline event or an audit row
\* owned by another tenant.
C5_TenantIsolation ==
  [][\A k \in RequestIds :
       /\ reqs'[k].pc = "done" /\ reqs'[k].tenantId \in Tenants
           => \A row \in reqs'[k].returned :
                row.tenantId = reqs'[k].tenantId
       /\ k \in InFlight /\ Acts(k)
           => /\ \A i \in DOMAIN incidents :
                   incidents[i].tenantId # reqs[k].tenantId
                     => incidents'[i] = incidents[i]
              /\ \A n \in (Len(timeline) + 1)..Len(timeline') :
                   timeline'[n].tenantId = reqs[k].tenantId
              /\ \A n \in (Len(auditLog) + 1)..Len(auditLog') :
                   auditLog'[n].tenantId = reqs[k].tenantId]_vars

\* ---------------------------------------------------------------- C6
HasCreationEvent(i) ==
  \E n \in 1..Len(timeline) :
    /\ timeline[n].incidentId = i
    /\ timeline[n].type = "STATUS_CHANGE"
    /\ timeline[n].from = Null
    /\ timeline[n].to = "OPEN"

HasCreationAudit(i) ==
  \E n \in 1..Len(auditLog) :
    auditLog[n].entityId = i /\ auditLog[n].action = "CREATE"

\* C6: in every reachable state an incident row exists if and only if its
\* initial STATUS_CHANGE event {from: null, to: OPEN} and its CREATE audit
\* row exist.
C6_CreateAllOrNothing ==
  \A i \in 1..(MaxIncidents + MaxRequests) :
    /\ i \in DOMAIN incidents <=> HasCreationEvent(i)
    /\ i \in DOMAIN incidents <=> HasCreationAudit(i)

\* ---------------------------------------------------------------- C7
IsStatusChange(e) == e.type = "STATUS_CHANGE"
IsNote(e) == e.type = "NOTE"

\* C7: a single status change that succeeds, from the status s it was
\* validated against to t, sets the row's status to t and in the same step
\* appends exactly one STATUS_CHANGE event {from: s, to: t}, exactly one NOTE
\* event carrying the message iff the message is non-empty, no other event,
\* and exactly one audit row whose before and after snapshots hold s and t.
C7_StatusChangeEffects ==
  [][\A k \in RequestIds :
       CommitsStatusChange(k) =>
         LET r == reqs[k]
             id == TheId(r)
             s == r.snap[id].status
             t == r.newStatus
             evs == Appended(timeline, timeline')
             aus == Appended(auditLog, auditLog')
         IN /\ incidents'[id].status = t
            /\ \A j \in DOMAIN incidents \ {id} : incidents'[j] = incidents[j]
            /\ IsPrefix(timeline, timeline')
            /\ IsPrefix(auditLog, auditLog')
            /\ Cardinality({n \in 1..Len(evs) : IsStatusChange(evs[n])}) = 1
            /\ Cardinality({n \in 1..Len(evs) : IsNote(evs[n])}) =
                 IF r.message # "" THEN 1 ELSE 0
            /\ \A n \in 1..Len(evs) :
                  /\ evs[n].incidentId = id
                  /\ evs[n].tenantId = r.tenantId
                  /\ IsStatusChange(evs[n]) \/ IsNote(evs[n])
                  /\ IsStatusChange(evs[n]) => evs[n].from = s /\ evs[n].to = t
                  /\ IsNote(evs[n]) => evs[n].message = r.message
            /\ Len(aus) = 1
            /\ aus[1].entityId = id
            /\ aus[1].beforeData.status = s
            /\ aus[1].afterData.status = t]_vars

\* a PATCH with a message committed MITIGATED -> RESOLVED: the timeline ends
\* with its STATUS_CHANGE event followed by its NOTE
C7_Witness ==
  /\ Len(timeline) >= 2
  /\ timeline[Len(timeline)].type = "NOTE"
  /\ timeline[Len(timeline)].message = "note"
  /\ timeline[Len(timeline) - 1].type = "STATUS_CHANGE"
  /\ timeline[Len(timeline) - 1].from = "MITIGATED"
  /\ timeline[Len(timeline) - 1].to = "RESOLVED"
  /\ \E k \in RequestIds : reqs[k].pc = "done" /\ reqs[k].code = "ok"

\* ---------------------------------------------------------------- C8
\* C8: a single status-change request that is refused as an invalid
\* transition leaves the incident rows (updated_at included), the timeline
\* and the audit log exactly as they were.
C8_RejectionChangesNothing ==
  [][\A k \in RequestIds :
       /\ reqs[k].pc # "done"
       /\ reqs'[k].pc = "done"
       /\ reqs'[k].code = "invalid_transition"
       => store' = store]_vars

\* a request was refused as an invalid transition after another had
\* changed a status
C8_Witness ==
  /\ \E k \in RequestIds :
        reqs[k].pc = "done" /\ reqs[k].code = "invalid_transition"
  /\ \E i \in DOMAIN incidents : incidents[i].status = "RESOLVED"

\* ---------------------------------------------------------------- C9
\* C9: when a bulk request fails partway, every incident it selected is as
\* the request read it and the timeline and the audit log are as long as
\* they were when it read: nothing the request wrote remains.
C9_BulkFailureLeavesNothing ==
  [][\A k \in RequestIds :
       /\ reqs[k].op \in {"change-status", "assign-engineer",
                          "bulkUpdateStatus", "bulkAssign"}
       /\ reqs'[k].pc = "done"
       /\ reqs'[k].code = "error"
       => /\ \A i \in DOMAIN reqs[k].snap :
               SnapshotOf(incidents'[i]) = reqs[k].snap[i]
          /\ Len(timeline') = reqs[k].mark[1]
          /\ Len(auditLog') = reqs[k].mark[2]]_vars

\* ---------------------------------------------------------------- C10
\* C10: a request made by a user whose role in the tenant is VIEWER never
\* changes the store: no step of it writes an incident row, a timeline
\* event or an audit row.
C10_ViewerNeverMutates ==
  [][\A k \in RequestIds :
       /\ k \in InFlight
       /\ getUserTenantRole(reqs[k].user, reqs[k].tenantId) = "VIEWER"
       /\ Acts(k)
       => store' = store]_vars

\* ---------------------------------------------------------------- C11
\* C11: the number of audit rows always equals the number of successful
\* mutations: one row per incident created, and one per request that
\* changed a single incident (status change, note, action) and succeeded.
C11_AuditCountEqualsMutations ==
  Len(auditLog) =
    Cardinality(DOMAIN incidents) +
    Cardinality({k \in RequestIds :
                   reqs[k].pc = "done" /\ reqs[k].code \in {"ok", "created"}})

\* ---------------------------------------------------------------- C12
\* C12: a pass sets a job to PROCESSING only when the job is PENDING at
\* that moment, so a job is claimed by at most one of the overlapping
\* passes and a PROCESSING, COMPLETED or FAILED job is never set back to
\* PROCESSING.
C12_ClaimOnlyPending ==
  [][\A j \in 1..Len(jobs) :
       (\E p \in PassIds :
          /\ passes[p].pc = "mark" /\ passes[p].job = j
          /\ passes'[p].pc = "handle")
       => jobs[j].status = "PENDING"]_vars

\* ---------------------------------------------------------------- C13
\* C13: when markJobFailed writes the failure of a job whose retries is r:
\* if r < 3 the job is PENDING with retries r + 1, otherwise it is FAILED
\* with the error stored and retries still r.
C13_FailureRetryBudget ==
  [][\A p \in PassIds :
       passes[p].pc = "failed_write" /\ passes'[p].pc # "failed_write" =>
         LET j == passes[p].job
             r == jobs[j].retries
         IN IF r < 3
            THEN jobs'[j].status = "PENDING" /\ jobs'[j].retries = r + 1
            ELSE /\ jobs'[j].status = "FAILED"
                 /\ jobs'[j].error # Null
                 /\ jobs'[j].retries = r]_vars

\* ---------------------------------------------------------------- C14
\* C14: while the worker keeps polling, every enqueued job has its handler
\* run at least once and from some moment on rests in COMPLETED or FAILED
\* for good; a job whose handler always fails is therefore run only a
\* bounded number of times.
C14_JobsEventuallyRest ==
  \A j \in 1..MaxJobs :
    <>[](jobs[j].status \in {"COMPLETED", "FAILED"} /\ jobs[j].runs >= 1)

\* a job whose attachment is gone has failed four times and is FAILED, and
\* no pass is running
C14_Witness ==
  /\ \E j \in 1..Len(jobs) :
        /\ ~attachments[jobs[j].attachmentId].exists
        /\ jobs[j].status = "FAILED"
        /\ jobs[j].runs = 4
  /\ \A p \in PassIds : passes[p].pc = "idle"

\* ---------------------------------------------------------------- C15
\* C15: in every reachable state an uploaded attachment row exists if and
\* only if exactly one SCAN_ATTACHMENT job for it exists.
C15_AttachmentIffOneScanJob ==
  /\ \A a \in 1..Len(attachments) :
        Cardinality({j \in 1..Len(jobs) :
                       /\ jobs[j].type = "SCAN_ATTACHMENT"
                       /\ jobs[j].attachmentId = a}) = 1
  /\ \A j \in 1..Len(jobs) :
        jobs[j].type = "SCAN_ATTACHMENT" =>
          jobs[j].attachmentId \in 1..Len(attachments)

\* ---------------------------------------------------------------- C16
\* C16: processing a SCAN_ATTACHMENT job again changes nothing: once the
\* attachment has a terminal scan status (CLEAN or INFECTED) a further run
\* of the handler leaves it the same, and once the job has a result a
\* further completion stores the same result.
C16_ReprocessingKeepsScanResult ==
  [][/\ \A a \in 1..Len(attachments) :
          attachments[a].scanStatus \in {"CLEAN", "INFECTED"} =>
            attachments'[a].scanStatus = attachments[a].scanStatus
     /\ \A j \in 1..Len(jobs) :
          jobs[j].result # Null => jobs'[j].result = jobs[j].result]_vars

\* ========================= feature flags  (lib/feature-flags.ts)
\* A rule condition is a JSON object: a record that carries the keys the
\* object has.
UserIds == {"u1", "u2", "u3"}
Environments == {"PROD", "STAGING"}
FlagIds == {1, 2}

FlagRow(tenantId, key, enabled, environment) ==
  [tenantId |-> tenantId, key |-> key, enabled |-> enabled,
   environment |-> environment]

RuleRow(flagId, type, condition, order) ==
  [flagId |-> flagId, type |-> type, condition |-> condition, order |-> order]

\* hash.digest("hex").substring(0, 8) of `${userId}:${flagKey}` for the user
\* ids and flag keys of the model, as its two 16-bit halves
sha256Prefix(userId, flagKey) ==
  IF flagKey = "new-checkout"
  THEN (IF userId = "u1" THEN <<57600, 2341>>      \* e1000925
        ELSE IF userId = "u2" THEN <<45570, 6742>> \* b2021a56
        ELSE <<51199, 42484>>)                     \* c7ffa5f4
  ELSE (IF userId = "u1" THEN <<49912, 29434>>     \* c2f872fa
        ELSE IF userId = "u2" THEN <<26067, 46064>> \* 65d3b3f0
        ELSE <<11913, 50341>>)                     \* 2e89c4a5

\* parseInt(hex, 16) % 100 of the 32-bit number hi * 65536 + lo, computed
\* on the halves
bucket(hi, lo) == ((hi % 100) * (65536 % 100) + (lo % 100)) % 100

\* stableHash that returns the low half of the number, not its remainder
stableHash_lowWord(userId, flagKey) ==
  sha256Prefix(userId, flagKey)[2]

stableHash(userId, flagKey) ==
  bucket(sha256Prefix(userId, flagKey)[1], sha256Prefix(userId, flagKey)[2])

\* ruleSchema.parse(condition) succeeds
RECURSIVE ruleSchema(_)
ruleSchema(condition) ==
  IF "type" \notin DOMAIN condition THEN FALSE
  ELSE IF condition.type = "ALLOWLIST" THEN "userIds" \in DOMAIN condition
  ELSE IF condition.type = "PERCENT_ROLLOUT"
    THEN /\ "percentage" \in DOMAIN condition
         /\ condition.percentage >= 0
         /\ condition.percentage <= 100
  ELSE IF condition.type \in {"AND", "OR"}
    THEN /\ "rules" \in DOMAIN condition
         /\ \A i \in DOMAIN condition.rules : ruleSchema(condition.rules[i])
  ELSE FALSE

validateRule(condition) == [valid |-> ruleSchema(condition)]

\* evaluateRule whose PERCENT_ROLLOUT case takes the buckets at or above the
\* percentage
RECURSIVE evaluateRule_bucketAbove(_, _, _)
evaluateRule_bucketAbove(rule, context, flagKey) ==
  IF rule.type = "ALLOWLIST" THEN context.userId \in rule.userIds
  ELSE IF rule.type = "PERCENT_ROLLOUT"
    THEN stableHash(context.userId, flagKey) >= rule.percentage
  ELSE IF rule.type = "AND"
    THEN \A i \in DOMAIN rule.rules :
           evaluateRule_bucketAbove(rule.rules[i], context, flagKey)
  ELSE IF rule.type = "OR"
    THEN \E i \in DOMAIN rule.rules :
           evaluateRule_bucketAbove(rule.rules[i], context, flagKey)
  ELSE FALSE

\* evaluateRule with results.every(Boolean) in the OR case as well
RECURSIVE evaluateRule_orEvery(_, _, _)
evaluateRule_orEvery(rule, context, flagKey) ==
  IF rule.type = "ALLOWLIST" THEN context.userId \in rule.userIds
  ELSE IF rule.type = "PERCENT_ROLLOUT"
    THEN stableHash(context.userId, flagKey) < rule.percentage
  ELSE IF rule.type \in {"AND", "OR"}
    THEN LET results == [i \in DOMAIN rule.rules |->
                           evaluateRule_orEvery(rule.rules[i], context, flagKey)]
         IN \A i \in DOMAIN results : results[i]
  ELSE FALSE

RECURSIVE evaluateRule(_, _, _)
evaluateRule(rule, context, flagKey) ==
  IF rule.type = "ALLOWLIST" THEN context.userId \in rule.userIds
  ELSE IF rule.type = "PERCENT_ROLLOUT"
    THEN stableHash(context.userId, flagKey) < rule.percentage
  ELSE IF rule.type = "AND"
    THEN LET results == [i \in DOMAIN rule.rules |->
                           evaluateRule(rule.rules[i], context, flagKey)]
         IN \A i \in DOMAIN results : results[i]
  ELSE IF rule.type = "OR"
    THEN LET results == [i \in DOMAIN rule.rules |->
                           evaluateRule(rule.rules[i], context, flagKey)]
         IN \E i \in DOMAIN results : results[i]
  ELSE FALSE

\* trace.push(...): the entry of a rule node, by the node that wrote it and
\* what it reports
Entry(type, says) == [type |-> type, says |-> says]

RECURSIVE ruleTrace(_, _, _)
RECURSIVE mapTrace(_, _, _, _)
\* the entries evaluateRule pushes for one rule, in order
ruleTrace(rule, context, flagKey) ==
  IF rule.type \in {"ALLOWLIST", "PERCENT_ROLLOUT"}
  THEN <<Entry(rule.type, evaluateRule(rule, context, flagKey))>>
  ELSE IF rule.type \in {"AND", "OR"}
  THEN <<Entry(rule.type, "Evaluating")>>
         \o mapTrace(rule.rules, 1, context, flagKey)
         \o <<Entry(rule.type, evaluateRule(rule, context, flagKey))>>
  ELSE <<Entry("Unknown rule type", FALSE)>>

\* rule.rules.map((subRule) => evaluateRule(subRule, ...)): every sub-rule
mapTrace(subRules, i, context, flagKey) ==
  IF i > Len(subRules) THEN <<>>
  ELSE ruleTrace(subRules[i], context, flagKey)
         \o mapTrace(subRules, i + 1, context, flagKey)

\* the entries of the rules of a flag that the for loop went through, rule
\* by rule
flagTraces(flag, context, walked) ==
  [i \in 1..walked |->
     IF ruleSchema(flag.rules[i].condition)
     THEN ruleTrace(flag.rules[i].condition, context, flag.key)
     ELSE <<Entry("failed to parse", FALSE)>>]

\* failed: the positions of the rules that the trace reports as failed to
\* parse
Result(enabled, reason, n, results) ==
  [enabled |-> enabled, reason |-> reason, n |-> n, results |-> results,
   failed |-> {}]

\* the for loop of evaluateFeatureFlag with a catch that ends the
\* evaluation at the first rule that fails to parse
RECURSIVE evaluateRules_stopAtUnparsed(_, _, _, _)
evaluateRules_stopAtUnparsed(flag, context, i, results) ==
  IF i > Len(flag.rules) THEN Result(FALSE, "No rules matched", 0, results)
  ELSE LET condition == flag.rules[i].condition
       IN IF ~ruleSchema(condition)
          THEN [Result(FALSE, "No rules matched", 0, Append(results, FALSE))
                  EXCEPT !.failed = {i}]
          ELSE IF evaluateRule(condition, context, flag.key)
          THEN Result(TRUE, "Matched rule", i, Append(results, TRUE))
          ELSE evaluateRules_stopAtUnparsed(flag, context, i + 1,
                                            Append(results, FALSE))

\* the for loop of evaluateFeatureFlag from rule i on; results collects what
\* each rule walked so far evaluated to, a rule that fails to parse counting
\* as not matched and being reported in the trace
RECURSIVE evaluateRules(_, _, _, _)
evaluateRules(flag, context, i, results) ==
  IF i > Len(flag.rules) THEN Result(FALSE, "No rules matched", 0, results)
  ELSE LET condition == flag.rules[i].condition
           parsed == ruleSchema(condition)
           result == IF parsed
                     THEN evaluateRule(condition, context, flag.key)
                     ELSE FALSE
       IN IF result THEN Result(TRUE, "Matched rule", i, Append(results, TRUE))
          ELSE LET rest == evaluateRules(flag, context, i + 1,
                                         Append(results, FALSE))
               IN IF parsed THEN rest
                  ELSE [rest EXCEPT !.failed = @ \cup {i}]

\* evaluateFeatureFlag that keeps walking after a match and names the last
\* rule that matched
evaluateFeatureFlag_lastMatch(flag, context) ==
  IF ~flag.enabled THEN Result(FALSE, "Flag is globally disabled", 0, <<>>)
  ELSE IF flag.environment # context.environment
    THEN Result(FALSE, "Environment mismatch", 0, <<>>)
  ELSE IF Len(flag.rules) = 0
    THEN Result(TRUE, "No rules defined, enabled for all", 0, <<>>)
  ELSE LET results == [i \in DOMAIN flag.rules |->
                         IF ruleSchema(flag.rules[i].condition)
                         THEN evaluateRule(flag.rules[i].condition, context, flag.key)
                         ELSE FALSE]
           hits == {i \in DOMAIN results : results[i]}
       IN IF hits = {} THEN Result(FALSE, "No rules matched", 0, results)
          ELSE Result(TRUE, "Matched rule",
                      CHOOSE i \in hits : \A j \in hits : j <= i, results)

evaluateFeatureFlag(flag, context) ==
  IF ~flag.enabled THEN Result(FALSE, "Flag is globally disabled", 0, <<>>)
  ELSE IF flag.environment # context.environment
    THEN Result(FALSE, "Environment mismatch", 0, <<>>)
  ELSE IF Len(flag.rules) = 0
    THEN Result(TRUE, "No rules defined, enabled for all", 0, <<>>)
  ELSE evaluateRules(flag, context, 1, <<>>)

\* ------------------------------------------------------- rule conditions
\* the conditions of the model: the JSON trees over these leaves, of at
\* most MaxNodes nodes as stored rules and of at most MaxBodyNodes nodes in
\* the request bodies
MaxNodes == 3
MaxBodyNodes == 1

Leaves ==
  {[type |-> "ALLOWLIST", userIds |-> {"u1", "u2"}]}
    \cup {[type |-> "PERCENT_ROLLOUT", percentage |-> p] : p \in {50, 150}}
    \cup {[type |-> "INVALID"]}

RECURSIVE Trees(_)
RECURSIVE Forests(_)
\* the trees of exactly n nodes
Trees(n) ==
  (IF n = 1 THEN Leaves ELSE {})
    \cup {[type |-> t, rules |-> f] : t \in {"AND", "OR"}, f \in Forests(n - 1)}

\* the lists of trees of n nodes in all
Forests(n) ==
  IF n = 0 THEN {<<>>}
  ELSE UNION {{<<t>> \o f : t \in Trees(m), f \in Forests(n - m)} : m \in 1..n}

Conditions == UNION {Trees(n) : n \in 1..MaxNodes}

BodyConditions == UNION {Trees(n) : n \in 1..MaxBodyNodes}

\* { condition, order? }, and a body without a condition
Bodies ==
  {[condition |-> c] : c \in BodyConditions}
    \cup {[condition |-> c, order |-> 0] : c \in BodyConditions}
    \cup {[order |-> 0]}

\* ========================= POST /api/feature-flags/{id}/rules
\* The checks, the default order and the transaction that inserts the rule
\* and its audit row; a failing store leaves nothing behind.
POST_rule(k, user, tenantId, flagId, body) ==
  /\ CanStart(k)
  /\ IF user = NoUser \/ tenantId = Absent
     THEN Answer(k, "unauthorized") /\ UNCHANGED rules
     ELSE IF ~(flagId \in DOMAIN flags /\ flags[flagId].tenantId = tenantId)
     THEN Answer(k, "not_found") /\ UNCHANGED rules
     ELSE IF "condition" \notin DOMAIN body
     THEN Answer(k, "bad_request") /\ UNCHANGED rules
     ELSE IF ~validateRule(body.condition).valid
     THEN Answer(k, "bad_request") /\ UNCHANGED rules
     ELSE LET mine == {i \in DOMAIN rules : rules[i].flagId = flagId}
              maxOrder == IF mine = {} THEN -1
                          ELSE CHOOSE o \in {rules[i].order : i \in mine} :
                                 \A i \in mine : rules[i].order <= o
              order == IF "order" \in DOMAIN body THEN body.order
                       ELSE maxOrder + 1
          IN \/ /\ rules' = Append(rules,
                     RuleRow(flagId, body.condition.type, body.condition, order))
                /\ auditLog' = Append(auditLog,
                     AuditRow(tenantId, user, "ADD_RULE", flagId, NoData, NoData))
                /\ reqs' = [reqs EXCEPT ![k] = Done("created")]
                /\ UNCHANGED <<incidents, timeline>>
             \/ Answer(k, "error") /\ UNCHANGED rules
  /\ UNCHANGED <<services, queue, flags, evals>>

\* prisma.rule.findMany({ where: { flagId }, orderBy: { order: "asc" } }):
\* the conditions of the flag's rules in every order the store can return
\* them, rules of equal order in either order
findManyRules(flagId) ==
  LET mine == {i \in DOMAIN rules : rules[i].flagId = flagId}
  IN {[a \in DOMAIN o |-> [condition |-> rules[o[a]].condition]] :
        o \in {x \in Orders(mine) :
                 \A a, b \in DOMAIN x :
                   a < b => rules[x[a]].order <= rules[x[b]].order}}

\* evaluateFeatureFlag applied to a stored flag and its rules
Evaluate(flagId, userId, environment) ==
  /\ flagId \in DOMAIN flags
  /\ \E rs \in findManyRules(flagId) :
       LET flag == [key |-> flags[flagId].key,
                    enabled |-> flags[flagId].enabled,
                    environment |-> flags[flagId].environment,
                    rules |-> rs]
           r == evaluateFeatureFlag(flag,
                  [userId |-> userId, environment |-> environment])
       IN evals' = [flagId |-> flagId, rules |-> rs, userId |-> userId,
                    environment |-> environment, enabled |-> r.enabled,
                    reason |-> r.reason, n |-> r.n, results |-> r.results,
                    failed |-> r.failed,
                    traces |-> flagTraces(flag,
                                 [userId |-> userId, environment |-> environment],
                                 Len(r.results))]
  /\ UNCHANGED <<services, store, reqs, queue, flags, rules>>

\* Flag 1 was created in tenant tA through the API, enabled or not, and has
\* no rule yet; flag 2 is a flag of the seed in tenant tB with the rule the
\* seed gives it, whose condition carries no type.
InitFlags ==
  /\ InitIncidents
  /\ EmptyQueue
  /\ flags \in {[f \in FlagIds |->
                   IF f = 1 THEN FlagRow("tA", "new-checkout", e, "PROD")
                   ELSE FlagRow("tB", "team_collaboration_v3", TRUE, "PROD")] :
                e \in BOOLEAN}
  /\ rules = <<RuleRow(2, "PERCENT_ROLLOUT", [percentage |-> 80], 0)>>
  /\ evals = NoEval
  /\ EmptyServices

NextFlags ==
  \/ \E k \in RequestIds, u \in Callers, f \in FlagIds, b \in Bodies :
       \E t \in SessionTenants(u) : POST_rule(k, u, t, f, b)
  \/ \E f \in FlagIds, u \in UserIds, e \in Environments : Evaluate(f, u, e)

SpecFlags == InitFlags /\ [][NextFlags]_vars

\* Evaluation alone, over every rule tree: flag 1 holds one rule, any
\* condition of the model that the add-rule endpoint stores, and flag 2
\* holds the same rule after the rule of the seed.
InitRules ==
  /\ InitIncidents
  /\ EmptyQueue
  /\ flags \in {[f \in FlagIds |->
                   IF f = 1 THEN FlagRow("tA", "new-checkout", e, "PROD")
                   ELSE FlagRow("tB", "team_collaboration_v3", TRUE, "PROD")] :
                e \in BOOLEAN}
  /\ rules \in {<<RuleRow(2, "PERCENT_ROLLOUT", [percentage |-> 80], 0),
                  RuleRow(1, c.type, c, 0),
                  RuleRow(2, c.type, c, 1)>> :
                c \in {x \in Conditions : validateRule(x).valid}}
  /\ evals = NoEval
  /\ EmptyServices

NextRules ==
  \E f \in FlagIds, u \in UserIds, e \in Environments : Evaluate(f, u, e)

SpecRules == InitRules /\ [][NextRules]_vars

\* ---------------------------------------------------------------- C17
\* an evaluation was made
Evaluated == evals.flagId # 0

\* the grammar's reading of a rule: what it means for a rule tree to match
RECURSIVE Matches(_, _, _)
Matches(rule, userId, flagKey) ==
  CASE rule.type = "ALLOWLIST" -> userId \in rule.userIds
    [] rule.type = "PERCENT_ROLLOUT" -> stableHash(userId, flagKey) < rule.percentage
    [] rule.type = "AND" ->
         \A i \in DOMAIN rule.rules : Matches(rule.rules[i], userId, flagKey)
    [] rule.type = "OR" ->
         \E i \in DOMAIN rule.rules : Matches(rule.rules[i], userId, flagKey)

\* the rules of the latest evaluation that match its user; a stored rule
\* that does not parse matches nobody
MatchingRules ==
  {i \in DOMAIN evals.rules :
     /\ ruleSchema(evals.rules[i].condition)
     /\ Matches(evals.rules[i].condition, evals.userId, flags[evals.flagId].key)}

\* C17: evaluateFeatureFlag decides in this order: a disabled flag is off
\* whatever its environment and rules; else a flag of another environment
\* than the context's is off; else a flag without rules is on; else the
\* flag is on exactly when some rule matches, and the reason names the
\* position of the first rule, in ascending order, that matches.
C17_EvaluationOrder ==
  Evaluated =>
    IF ~flags[evals.flagId].enabled THEN ~evals.enabled
    ELSE IF flags[evals.flagId].environment # evals.environment
      THEN ~evals.enabled
    ELSE IF Len(evals.rules) = 0 THEN evals.enabled
    ELSE IF MatchingRules = {} THEN ~evals.enabled
    ELSE /\ evals.enabled
         /\ evals.reason = "Matched rule"
         /\ evals.n \in MatchingRules
         /\ \A i \in MatchingRules : evals.n <= i

\* an evaluation in which the first rule missed and a later one matched
\* while another rule after it matches as well
C17_Witness ==
  /\ Evaluated
  /\ evals.enabled
  /\ evals.n = 2
  /\ 3 \in MatchingRules

\* ---------------------------------------------------------------- C18
\* C18: an enabled flag in the context's environment whose first rule is
\* ALLOWLIST{u1, u2} evaluates to enabled only for u1 and u2, whatever
\* PERCENT_ROLLOUT rule comes after the allowlist.
C18_AllowlistIsExclusive ==
  ( /\ Evaluated
    /\ flags[evals.flagId].enabled
    /\ flags[evals.flagId].environment = evals.environment
    /\ Len(evals.rules) >= 1
    /\ evals.rules[1].condition = [type |-> "ALLOWLIST", userIds |-> {"u1", "u2"}]
    /\ \A i \in 2..Len(evals.rules) :
         /\ "type" \in DOMAIN evals.rules[i].condition
         /\ evals.rules[i].condition.type = "PERCENT_ROLLOUT"
    /\ evals.enabled )
  => evals.userId \in {"u1", "u2"}

\* ---------------------------------------------------------------- C19
\* C19: every rule tree that an evaluation walked evaluated to what the
\* grammar says: AND iff every child matches, OR iff at least one child
\* matches, at every depth; ALLOWLIST iff the user is in the list;
\* PERCENT_ROLLOUT iff stableHash(userId, flagKey) < percentage.
C19_RuleTreeSemantics ==
  \A i \in DOMAIN evals.results :
    ruleSchema(evals.rules[i].condition) =>
      evals.results[i] =
        Matches(evals.rules[i].condition, evals.userId, flags[evals.flagId].key)

\* an evaluation walked an AND over an OR or an OR over an AND, with a leaf
\* below, and it matched
C19_Witness ==
  \E i \in DOMAIN evals.results :
    LET c == evals.rules[i].condition
    IN /\ ruleSchema(c)
       /\ c.type \in {"AND", "OR"}
       /\ Len(c.rules) = 1
       /\ c.rules[1].type \in {"AND", "OR"} \ {c.type}
       /\ Len(c.rules[1].rules) = 1
       /\ evals.results[i]

\* ---------------------------------------------------------------- C20
\* what the claim asks of a condition: a known type, a percentage within
\* [0, 100], at least one child under every AND and OR, every child valid
RECURSIVE ValidRule(_)
ValidRule(c) ==
  /\ "type" \in DOMAIN c
  /\ c.type \in {"ALLOWLIST", "PERCENT_ROLLOUT", "AND", "OR"}
  /\ c.type = "PERCENT_ROLLOUT" =>
       "percentage" \in DOMAIN c /\ c.percentage \in 0..100
  /\ c.type \in {"AND", "OR"} =>
       /\ "rules" \in DOMAIN c
       /\ Len(c.rules) >= 1
       /\ \A i \in DOMAIN c.rules : ValidRule(c.rules[i])

\* C20: the add-rule endpoint stores a rule only when its condition is
\* valid: known type, percentage in [0, 100], every AND/OR with at least
\* one child, every nested child valid.
C20_OnlyValidRulesStored ==
  [][Len(rules') > Len(rules) => ValidRule(rules'[Len(rules')].condition)]_vars

\* ---------------------------------------------------------------- C21
\* the conditions that differ from c in one PERCENT_ROLLOUT node, whose
\* percentage is raised, by nothing or more, within the grammar's range
RECURSIVE Raised(_)
Raised(c) ==
  IF c.type = "PERCENT_ROLLOUT"
  THEN {[c EXCEPT !.percentage = q] : q \in c.percentage..100}
  ELSE IF c.type \in {"AND", "OR"}
  THEN UNION {{[c EXCEPT !.rules = [c.rules EXCEPT ![i] = r]] :
                 r \in Raised(c.rules[i])} : i \in DOMAIN c.rules}
  ELSE {}

\* the rule lists that differ from rs in one raised PERCENT_ROLLOUT node
RaisedLists(rs) ==
  UNION {{[rs EXCEPT ![i] = [condition |-> r]] : r \in Raised(rs[i].condition)} :
           i \in {x \in DOMAIN rs : ruleSchema(rs[x].condition)}}

\* the arguments of the latest evaluation, with another rule list
FlagWith(rs) ==
  [key |-> flags[evals.flagId].key, enabled |-> flags[evals.flagId].enabled,
   environment |-> flags[evals.flagId].environment, rules |-> rs]

\* C21: an evaluation that came out enabled comes out enabled as well for
\* the same flag, user and environment after the percentage of any one
\* PERCENT_ROLLOUT node of its rules, at the top or inside AND/OR, is raised.
C21_RolloutMonotone ==
  (Evaluated /\ evals.enabled) =>
    \A rs \in RaisedLists(evals.rules) :
      evaluateFeatureFlag(FlagWith(rs),
        [userId |-> evals.userId, environment |-> evals.environment]).enabled

\* an enabled evaluation through a PERCENT_ROLLOUT node inside an AND or OR
\* that sits second in the rule list, with room to raise it
C21_Witness ==
  /\ Evaluated
  /\ evals.enabled
  /\ evals.n = 2
  /\ evals.rules[2].condition.type \in {"AND", "OR"}
  /\ \E i \in DOMAIN evals.rules[2].condition.rules :
       /\ evals.rules[2].condition.rules[i].type = "PERCENT_ROLLOUT"
       /\ evals.rules[2].condition.rules[i].percentage < 100
       /\ stableHash(evals.userId, flags[evals.flagId].key)
            < evals.rules[2].condition.rules[i].percentage

\* ---------------------------------------------------------------- C22
\* 16-bit halves at the edges of the range of the hashed number
EdgeWords == {0, 1, 99, 100, 32767, 32768, 65535}

UnparsedRules ==
  {i \in DOMAIN evals.rules : ~ruleSchema(evals.rules[i].condition)}

\* C23: in an evaluation that reaches the rules, every rule walked whose
\* condition does not parse is reported in the trace and counts as not
\* matched, the evaluation goes on after it, so that the flag is enabled
\* exactly when some rule that parses matches, and a list of nothing but
\* unparseable rules gives enabled = false.
C23_UnparsedRuleIsSkipped ==
  ( /\ Evaluated
    /\ flags[evals.flagId].enabled
    /\ flags[evals.flagId].environment = evals.environment
    /\ Len(evals.rules) > 0 )
  => /\ \A i \in UnparsedRules :
          i <= Len(evals.results) => i \in evals.failed /\ ~evals.results[i]
     /\ evals.failed \subseteq UnparsedRules
     /\ evals.enabled <=> MatchingRules # {}
     /\ evals.enabled => evals.n \in MatchingRules
     /\ UnparsedRules = DOMAIN evals.rules =>
          ~evals.enabled /\ evals.failed = UnparsedRules

\* an evaluation whose first rule failed to parse and whose second matched
C23_Witness ==
  /\ Evaluated
  /\ 1 \in evals.failed
  /\ evals.enabled
  /\ evals.n = 2

\* ========================= rate limiter  (lib/rate-limit.ts)
defaultConfig == [windowMs |-> 60 * 1000, maxRequests |-> 100]
writeConfig == [windowMs |-> 60 * 1000, maxRequests |-> 30]

\* The clock of the model: the instants Date.now() can show are the first
\* MaxDrift milliseconds after the start and after each of the MaxWindows
\* following minutes. A counter is followed MaxOver calls past its limit.
MaxWindows == 1
MaxDrift == 1
MaxOver == 2

Instants ==
  {w * defaultConfig.windowMs + d : w \in 0..MaxWindows, d \in 0..MaxDrift}

Identifiers == {"alice"}

\* time passes
Tick(t) ==
  /\ t \in Instants
  /\ t > now
  /\ now' = t
  /\ UNCHANGED <<store, reqs, queue, flagTables, rateLimitStore, rateLimit, csrf,
               streamVars>>

\* the store with the entries removed whose window has passed
Cleaned(m) ==
  [k \in {x \in DOMAIN m : ~(now > m[x].resetAt)} |-> m[k]]

\* checkRateLimit that reports the call that reaches the limit as limited
checkRateLimit_limitsAtMax(key, config) ==
  LET fresh == key \notin DOMAIN rateLimitStore \/ now > rateLimitStore[key].resetAt
      entry == IF fresh THEN [count |-> 0, resetAt |-> now + config.windowMs]
               ELSE rateLimitStore[key]
      counted == [entry EXCEPT !.count = @ + 1]
      set == [k \in DOMAIN rateLimitStore \cup {key} |->
                IF k = key THEN counted ELSE rateLimitStore[k]]
  IN /\ counted.count <= config.maxRequests + MaxOver
     /\ rateLimitStore' = set
     /\ rateLimit' = [key |-> key,
                      limited |-> counted.count >= config.maxRequests,
                      remaining |-> IF config.maxRequests - counted.count > 0
                                    THEN config.maxRequests - counted.count ELSE 0,
                      resetAt |-> counted.resetAt]
     /\ UNCHANGED <<store, reqs, queue, flagTables, now, csrf, streamVars>>

\* One call of checkRateLimit. The Map holds the entry object, so count++
\* is a write to the store. The sweep of expired entries runs when the Map
\* has grown large, which the model lets happen at any call.
checkRateLimit(key, config) ==
  LET fresh == key \notin DOMAIN rateLimitStore \/ now > rateLimitStore[key].resetAt
      entry == IF fresh THEN [count |-> 0, resetAt |-> now + config.windowMs]
               ELSE rateLimitStore[key]
      counted == [entry EXCEPT !.count = @ + 1]
      set == [k \in DOMAIN rateLimitStore \cup {key} |->
                IF k = key THEN counted ELSE rateLimitStore[k]]
  IN /\ counted.count <= config.maxRequests + MaxOver
     /\ \/ rateLimitStore' = set
        \/ rateLimitStore' = Cleaned(set)
     /\ rateLimit' = [key |-> key,
                      limited |-> counted.count > config.maxRequests,
                      remaining |-> IF config.maxRequests - counted.count > 0
                                    THEN config.maxRequests - counted.count ELSE 0,
                      resetAt |-> counted.resetAt]
     /\ UNCHANGED <<store, reqs, queue, flagTables, now, csrf, streamVars>>

\* checkRateLimit(`read:${identifier}`, defaultConfig)
rateLimitRead(identifier) == checkRateLimit(<<"read", identifier>>, defaultConfig)

\* checkRateLimit(`write:${identifier}`, writeConfig)
rateLimitWrite(identifier) == checkRateLimit(<<"write", identifier>>, writeConfig)

NextLimit ==
  \/ \E i \in Identifiers : rateLimitRead(i)
  \/ \E i \in Identifiers : rateLimitWrite(i)
  \/ \E t \in Instants : Tick(t)

SpecLimit == Init /\ [][NextLimit]_vars

\* ---------------------------------------------------------------- C24
\* a call of checkRateLimit for key k happened in this step
Called(k) ==
  /\ rateLimit'.key = k
  /\ k \in DOMAIN rateLimitStore'
  /\ (k \notin DOMAIN rateLimitStore \/ rateLimitStore'[k] # rateLimitStore[k])

\* the limit of the spec for an operation class
LimitOf(class) == IF class = "read" THEN 100 ELSE 30

\* C24: a call within the window of its key is counted in that window;
\* the calls counted first to N-th in a window are admitted (N = 100 for
\* reads, 30 for writes); every later call of the window is reported as
\* limited, with remaining = 0 and the reset instant the window had.
C24_FirstNAdmitted ==
  [][\A k \in {"read", "write"} \X Identifiers :
       Called(k) =>
         LET open == k \in DOMAIN rateLimitStore /\ now <= rateLimitStore[k].resetAt
             nth == rateLimitStore'[k].count
         IN /\ open => /\ nth = rateLimitStore[k].count + 1
                       /\ rateLimitStore'[k].resetAt = rateLimitStore[k].resetAt
            /\ ~open => nth = 1
            /\ rateLimit'.limited <=> nth > LimitOf(k[1])
            /\ rateLimit'.limited =>
                 /\ rateLimit'.remaining = 0
                 /\ open
                 /\ rateLimit'.resetAt = rateLimitStore[k].resetAt]_vars

\* the second call past the limit of the read window was answered, at the
\* last instant of the window
C24_Witness ==
  /\ rateLimit.key = <<"read", "alice">>
  /\ rateLimit.limited
  /\ rateLimitStore[<<"read", "alice">>].count = 102
  /\ now = rateLimit.resetAt

\* ---------------------------------------------------------------- C25
\* C25: the reset instant of every counter is a boundary of the fixed grid
\* of 60-second intervals.
C25_ResetOnGrid ==
  \A k \in DOMAIN rateLimitStore : rateLimitStore[k].resetAt % 60000 = 0

\* ========================= CSRF check  (lib/security.ts)
\* The header values of the model. new URL(value) either throws or gives
\* the host (with the port, when it is not the default of the scheme).
Hosts == {"app.example.com"}
Origins ==
  {Absent, "https://app.example.com", "https://evil.example",
   "http://localhost:3000", "null"}
Referers ==
  {Absent, "https://app.example.com/t/acme/incidents",
   "https://evil.example/form.html", "http://localhost:3001/"}
CustomHeaders == {Absent, "fetch", "XMLHttpRequest", "curl"}
Methods == {"GET", "HEAD", "OPTIONS", "POST", "PATCH", "DELETE"}

\* new URL(value): ok is FALSE when the constructor throws
URL(value) ==
  IF value \in {"https://app.example.com",
                "https://app.example.com/t/acme/incidents"}
  THEN [ok |-> TRUE, host |-> "app.example.com"]
  ELSE IF value \in {"https://evil.example", "https://evil.example/form.html"}
  THEN [ok |-> TRUE, host |-> "evil.example"]
  ELSE IF value = "http://localhost:3000"
  THEN [ok |-> TRUE, host |-> "localhost:3000"]
  ELSE IF value = "http://localhost:3001/"
  THEN [ok |-> TRUE, host |-> "localhost:3001"]
  ELSE [ok |-> FALSE, host |-> Absent]

Requests ==
  [method : Methods, host : Hosts, origin : Origins, referer : Referers,
   requestedWith : CustomHeaders]

validateCsrf(request) ==
  LET expectedHosts == {request.host, "localhost:3000", "localhost:3001"}
  IN IF request.origin = Absent /\ request.referer = Absent
     THEN request.requestedWith \in {"XMLHttpRequest", "fetch"}
     ELSE IF request.origin # Absent
     THEN URL(request.origin).ok /\ URL(request.origin).host \in expectedHosts
     ELSE IF request.referer # Absent
     THEN URL(request.referer).ok /\ URL(request.referer).host \in expectedHosts
     ELSE FALSE

\* requireCsrf: null (status 0 here) lets the request pass, else 403
requireCsrf(request) ==
  /\ csrf' = [method |-> request.method, host |-> request.host,
              origin |-> request.origin, referer |-> request.referer,
              requestedWith |-> request.requestedWith,
              status |-> IF request.method \in {"GET", "HEAD", "OPTIONS"} THEN 0
                         ELSE IF ~validateCsrf(request) THEN 403
                         ELSE 0]
  /\ UNCHANGED <<store, reqs, queue, flagTables, limiter, streamVars>>

NextCsrf == \E request \in Requests : requireCsrf(request)

SpecCsrf == Init /\ [][NextCsrf]_vars

\* ---------------------------------------------------------------- C26
\* the host of a header value, when it is a URL
HostOf(value) == IF URL(value).ok THEN URL(value).host ELSE "(none)"

\* C26: a request with a safe method passes; a request with an unsafe
\* method passes exactly when its Origin host is the request Host, or it
\* has no Origin and its Referer host is the request Host, or it has
\* neither and carries X-Requested-With: fetch; otherwise it is answered 403.
C26_CsrfOriginCheck ==
  csrf.method # Absent =>
    IF csrf.method \in {"GET", "HEAD", "OPTIONS"} THEN csrf.status = 0
    ELSE LET pass ==
               \/ csrf.origin # Absent /\ HostOf(csrf.origin) = csrf.host
               \/ /\ csrf.origin = Absent
                  /\ csrf.referer # Absent
                  /\ HostOf(csrf.referer) = csrf.host
               \/ /\ csrf.origin = Absent
                  /\ csrf.referer = Absent
                  /\ csrf.requestedWith = "fetch"
         IN IF pass THEN csrf.status = 0 ELSE csrf.status = 403

\* ========================= GET /api/incidents/{id}/stream
\* (app/api/incidents/[id]/stream/route.ts)
\* One connection is followed.  Its start() runs in three pieces: the
\* synchronous head, the awaited count, and the rest, which arms the
\* interval and only then registers the abort listener.  Each interval
\* callback is a poll of six pieces, cut at its three awaits; callbacks are
\* started by the timer whether or not the previous one has returned.
besideStream == <<store, reqs, queue, flagTables, limiter, csrf>>

Frame(type, updatedAt, events) ==
  [type |-> type, updatedAt |-> updatedAt, events |-> events]

\* the rows of one incident in the timeline table, by row position
eventsOf(id) == {i \in DOMAIN timeline : timeline[i].incidentId = id}

\* prisma.timelineEvent.count({ where: { incidentId } })
count(id) == Cardinality(eventsOf(id))

RECURSIVE newest(_, _)
\* orderBy: { createdAt: "desc" }, take: n
newest(S, n) ==
  IF n <= 0 \/ S = {} THEN <<>>
  ELSE LET m == CHOOSE x \in S : \A y \in S : y <= x
       IN <<m>> \o newest(S \ {m}, n - 1)

\* the row the timeline table keeps no more: a row id is never used again
DeletedEvent == TimelineEvent(0, Absent, "DELETED", Absent, Absent, "", Absent)

\* the timer takes the first callback slot that is free
FreeSlot(p) ==
  /\ polls[p].pc = "idle"
  /\ \A q \in 1..MaxPolls : q < p => polls[q].pc # "idle"

\* the handler up to and including the synchronous head of start()
GET_stream(user, tenantId, id) ==
  /\ conn.pc = "none"
  /\ IF user = NoUser \/ tenantId = Absent
     THEN /\ conn' = [conn EXCEPT !.status = 401]
          /\ UNCHANGED frames
     ELSE IF ~findFirst(id, tenantId)
     THEN /\ conn' = [conn EXCEPT !.status = 404]
          /\ UNCHANGED frames
     ELSE /\ conn' = [conn EXCEPT !.pc = "counting", !.status = 200,
                        !.incidentId = id,
                        !.lastUpdated = incidents[id].updatedAt,
                        !.last = "connected"]
          /\ frames' = Append(frames, Frame("connected", 0, <<>>))
  /\ UNCHANGED polls
  /\ UNCHANGED besideStream

\* the awaited count returns; setInterval; addEventListener("abort")
start_Count ==
  /\ conn.pc = "counting"
  /\ conn' = [conn EXCEPT !.pc = "polling",
                !.lastTimelineCount = count(conn.incidentId),
                !.baseline = Len(timeline),
                !.interval = TRUE, !.listening = TRUE]
  /\ UNCHANGED <<polls, frames>>
  /\ UNCHANGED besideStream

\* The client goes away.  A registered listener clears the interval and
\* closes the controller.  With no listener registered yet the event is
\* lost; whether the runtime cancels the stream by itself, so that a later
\* enqueue throws, is left open.
abort ==
  /\ conn.pc \in {"counting", "polling"}
  /\ ~conn.aborted
  /\ IF conn.listening
     THEN conn' = [conn EXCEPT !.aborted = TRUE, !.interval = FALSE,
                     !.closed = TRUE]
     ELSE \E cancelled \in BOOLEAN :
            conn' = [conn EXCEPT !.aborted = TRUE,
                       !.closed = @ \/ cancelled]
  /\ UNCHANGED <<polls, frames>>
  /\ UNCHANGED besideStream

\* the timer fires: prisma.incident.findUnique({ where: { id } })
poll_findUnique(p) ==
  /\ conn.interval
  /\ FreeSlot(p)
  /\ polls' = [polls EXCEPT ![p] =
       [IdlePoll EXCEPT !.pc = "found",
          !.found = conn.incidentId \in DOMAIN incidents,
          !.updatedAt = IF conn.incidentId \in DOMAIN incidents
                        THEN incidents[conn.incidentId].updatedAt ELSE 0]]
  /\ UNCHANGED <<conn, frames>>
  /\ UNCHANGED besideStream

\* C30 mutant: the deleted branch that returns without clearInterval and
\* controller.close()
poll_afterFind_staysOpen(p) ==
  /\ polls[p].pc = "found"
  /\ IF conn.closed /\ (~polls[p].found \/ polls[p].updatedAt > conn.lastUpdated)
     THEN /\ polls' = [polls EXCEPT ![p] = IdlePoll]
          /\ UNCHANGED <<conn, frames>>
     ELSE IF ~polls[p].found
     THEN /\ frames' = Append(frames, Frame("deleted", 0, <<>>))
          /\ conn' = [conn EXCEPT !.last = "deleted"]
          /\ polls' = [polls EXCEPT ![p] = IdlePoll]
     ELSE IF polls[p].updatedAt > conn.lastUpdated
     THEN /\ frames' = Append(frames,
                         Frame("incident_updated", polls[p].updatedAt, <<>>))
          /\ conn' = [conn EXCEPT !.lastUpdated = polls[p].updatedAt,
                        !.last = "incident_updated"]
          /\ polls' = [polls EXCEPT ![p].pc = "count"]
     ELSE /\ polls' = [polls EXCEPT ![p].pc = "count"]
          /\ UNCHANGED <<conn, frames>>
  /\ UNCHANGED besideStream

\* C28 mutant: the incident is sent whenever it differs from the last one
\* sent
poll_afterFind_onChange(p) ==
  /\ polls[p].pc = "found"
  /\ IF conn.closed /\ (~polls[p].found \/ polls[p].updatedAt # conn.lastUpdated)
     THEN /\ polls' = [polls EXCEPT ![p] = IdlePoll]
          /\ UNCHANGED <<conn, frames>>
     ELSE IF ~polls[p].found
     THEN /\ frames' = Append(frames, Frame("deleted", 0, <<>>))
          /\ conn' = [conn EXCEPT !.interval = FALSE, !.closed = TRUE,
                        !.last = "deleted"]
          /\ polls' = [polls EXCEPT ![p] = IdlePoll]
     ELSE IF polls[p].updatedAt # conn.lastUpdated
     THEN /\ frames' = Append(frames,
                         Frame("incident_updated", polls[p].updatedAt, <<>>))
          /\ conn' = [conn EXCEPT !.lastUpdated = polls[p].updatedAt,
                        !.last = "incident_updated"]
          /\ polls' = [polls EXCEPT ![p].pc = "count"]
     ELSE /\ polls' = [polls EXCEPT ![p].pc = "count"]
          /\ UNCHANGED <<conn, frames>>
  /\ UNCHANGED besideStream

\* C31 mutant: the incident is sent only when it is more than one update
\* ahead of the last one sent
poll_afterFind_skipsOne(p) ==
  /\ polls[p].pc = "found"
  /\ IF conn.closed /\ (~polls[p].found \/ polls[p].updatedAt > conn.lastUpdated + 1)
     THEN /\ polls' = [polls EXCEPT ![p] = IdlePoll]
          /\ UNCHANGED <<conn, frames>>
     ELSE IF ~polls[p].found
     THEN /\ frames' = Append(frames, Frame("deleted", 0, <<>>))
          /\ conn' = [conn EXCEPT !.interval = FALSE, !.closed = TRUE,
                        !.last = "deleted"]
          /\ polls' = [polls EXCEPT ![p] = IdlePoll]
     ELSE IF polls[p].updatedAt > conn.lastUpdated + 1
     THEN /\ frames' = Append(frames,
                         Frame("incident_updated", polls[p].updatedAt, <<>>))
          /\ conn' = [conn EXCEPT !.lastUpdated = polls[p].updatedAt,
                        !.last = "incident_updated"]
          /\ polls' = [polls EXCEPT ![p].pc = "count"]
     ELSE /\ polls' = [polls EXCEPT ![p].pc = "count"]
          /\ UNCHANGED <<conn, frames>>
  /\ UNCHANGED besideStream

\* findUnique returned.  enqueue on a closed controller throws, and the
\* catch of the callback ends it where it stands.
poll_afterFind(p) ==
  /\ polls[p].pc = "found"
  /\ IF conn.closed /\ (~polls[p].found \/ polls[p].updatedAt > conn.lastUpdated)
     THEN /\ polls' = [polls EXCEPT ![p] = IdlePoll]
          /\ UNCHANGED <<conn, frames>>
     ELSE IF ~polls[p].found
     THEN /\ frames' = Append(frames, Frame("deleted", 0, <<>>))
          /\ conn' = [conn EXCEPT !.interval = FALSE, !.closed = TRUE,
                        !.last = "deleted"]
          /\ polls' = [polls EXCEPT ![p] = IdlePoll]
     ELSE IF polls[p].updatedAt > conn.lastUpdated
     THEN /\ frames' = Append(frames,
                         Frame("incident_updated", polls[p].updatedAt, <<>>))
          /\ conn' = [conn EXCEPT !.lastUpdated = polls[p].updatedAt,
                        !.last = "incident_updated"]
          /\ polls' = [polls EXCEPT ![p].pc = "count"]
     ELSE /\ polls' = [polls EXCEPT ![p].pc = "count"]
          /\ UNCHANGED <<conn, frames>>
  /\ UNCHANGED besideStream

\* prisma.timelineEvent.count({ where: { incidentId } })
poll_count(p) ==
  /\ polls[p].pc = "count"
  /\ polls' = [polls EXCEPT ![p].pc = "counted",
                                ![p].count = count(conn.incidentId)]
  /\ UNCHANGED <<conn, frames>>
  /\ UNCHANGED besideStream

\* the count returned: either the size of the fetch is fixed, or the poll
\* ends with its heartbeat
poll_afterCount(p) ==
  /\ polls[p].pc = "counted"
  /\ IF polls[p].count > conn.lastTimelineCount
     THEN /\ polls' = [polls EXCEPT ![p].pc = "fetch",
                         ![p].take = polls[p].count - conn.lastTimelineCount]
          /\ UNCHANGED conn
     ELSE /\ polls' = [polls EXCEPT ![p] = IdlePoll]
          /\ conn' = IF conn.closed THEN conn
                     ELSE [conn EXCEPT !.last = "heartbeat"]
  /\ UNCHANGED frames
  /\ UNCHANGED besideStream

\* prisma.timelineEvent.findMany({ where, orderBy: desc, take })
poll_findMany(p) ==
  /\ polls[p].pc = "fetch"
  /\ polls' = [polls EXCEPT ![p].pc = "fetched",
                 ![p].events = newest(eventsOf(conn.incidentId), polls[p].take)]
  /\ UNCHANGED <<conn, frames>>
  /\ UNCHANGED besideStream

\* the rows returned: timeline_updated, lastTimelineCount, heartbeat
poll_afterFetch(p) ==
  /\ polls[p].pc = "fetched"
  /\ IF conn.closed
     THEN UNCHANGED <<conn, frames>>
     ELSE /\ frames' = Append(frames,
                         Frame("timeline_updated", 0, polls[p].events))
          /\ conn' = [conn EXCEPT !.lastTimelineCount = polls[p].count,
                        !.last = "heartbeat"]
  /\ polls' = [polls EXCEPT ![p] = IdlePoll]
  /\ UNCHANGED besideStream

\* prisma/seed.ts run again: it empties the tables, children first.  Of its
\* statements the two on the tables the stream reads are followed.  It is
\* run while no handler is inside a write.
NoWriteOpen == \A k \in RequestIds : reqs[k].pc # "patch_tx"

timelineEvent_deleteMany ==
  /\ NoWriteOpen
  /\ \E i \in DOMAIN timeline : timeline[i] # DeletedEvent
  /\ timeline' = [i \in DOMAIN timeline |-> DeletedEvent]
  /\ UNCHANGED <<incidents, auditLog, reqs>>
  /\ UNCHANGED beyondIncidents

\* TimelineEvent.incidentId is ON DELETE CASCADE
incident_deleteMany ==
  /\ NoWriteOpen
  /\ DOMAIN incidents # {}
  /\ \E i \in DOMAIN timeline : timeline[i] = DeletedEvent
  /\ incidents' = <<>>
  /\ timeline' = [i \in DOMAIN timeline |-> DeletedEvent]
  /\ UNCHANGED <<auditLog, reqs>>
  /\ UNCHANGED beyondIncidents

\* requests are numbered as they arrive
NextSlot(k) == \A j \in RequestIds : j < k => reqs[j].pc # NotStarted.pc

\* an engineer moves the followed incident along its status graph, with or
\* without a message
Writers(ks, ms) ==
  \/ \E k \in ks, m \in ms :
        /\ NextSlot(k)
        /\ findFirst(conn.incidentId, "tA")
        /\ \E s \in validTransitions(incidents[conn.incidentId].status) :
              PATCH_Read(k, "alice", "tA", conn.incidentId, s, m)
  \/ \E k \in ks : PATCH_Commit(k)

Polls ==
  \/ \E p \in 1..MaxPolls : poll_findUnique(p)
  \/ \E p \in 1..MaxPolls : poll_afterFind(p)
  \/ \E p \in 1..MaxPolls : poll_count(p)
  \/ \E p \in 1..MaxPolls : poll_afterCount(p)
  \/ \E p \in 1..MaxPolls : poll_findMany(p)
  \/ \E p \in 1..MaxPolls : poll_afterFetch(p)

\* One stream that stays open, next to the writers of the incident
NextStream ==
  \/ \E u \in Callers, i \in IncidentIds :
        \E t \in SessionTenants(u) : GET_stream(u, t, i)
  \/ start_Count
  \/ Polls
  \/ Writers(RequestIds, Messages)

SpecStream == Init /\ [][NextStream]_vars

\* One stream and the two ways it ends: the client goes away, or the seed
\* empties the tables; one status change is made meanwhile
NextStreamEnd ==
  \/ \E u \in Callers, i \in IncidentIds :
        \E t \in SessionTenants(u) : GET_stream(u, t, i)
  \/ start_Count
  \/ abort
  \/ Polls
  \/ Writers({1}, {""})
  \/ timelineEvent_deleteMany
  \/ incident_deleteMany

SpecStreamEnd == Init /\ [][NextStreamEnd]_vars

\* The same stream under the scheduling the runtime gives it: the timer keeps
\* firing while the interval is armed, and every awaited query returns.
SpecStreamEndFair == SpecStreamEnd /\ WF_vars(Polls)

\* ---------------------------------------------------------------- C27
\* the frames that carry timeline events
Payloads == {i \in DOMAIN frames : frames[i].type = "timeline_updated"}

\* the events of the followed incident that were created after start()
\* took its count
CreatedSinceOpen == {ev \in eventsOf(conn.incidentId) : ev > conn.baseline}

\* no callback is running and the connection has counted every event
CaughtUp ==
  /\ conn.pc = "polling"
  /\ \A p \in 1..MaxPolls : polls[p].pc = "idle"
  /\ conn.lastTimelineCount = count(conn.incidentId)

\* C27: on one connection every timeline event created after the stream
\* opened is in exactly one timeline_updated payload: payloads list their
\* events newest first, no event is in two places, and once the connection
\* has caught up with the table no event is missing.
C27_EachEventDeliveredOnce ==
  /\ \A i \in Payloads : \A a, b \in DOMAIN frames[i].events :
       a < b => frames[i].events[a] > frames[i].events[b]
  /\ \A i, j \in Payloads :
       \A a \in DOMAIN frames[i].events, b \in DOMAIN frames[j].events :
         frames[i].events[a] = frames[j].events[b] => i = j /\ a = b
  /\ CaughtUp =>
       \A ev \in CreatedSinceOpen :
         \E i \in Payloads : \E a \in DOMAIN frames[i].events :
           frames[i].events[a] = ev

\* ---------------------------------------------------------------- C28
Updates == {i \in DOMAIN frames : frames[i].type = "incident_updated"}

\* C28: the updated_at values of the incident_updated frames of one
\* connection never decrease along the connection.
C28_UpdatedAtNeverDecreases ==
  \A i, j \in Updates : i < j => frames[i].updatedAt <= frames[j].updatedAt

\* a callback that read the incident before a later callback sent a newer
\* one has got past the comparison without sending
C28_Witness ==
  /\ \E i \in Updates : frames[i].updatedAt = conn.lastUpdated
  /\ \E p \in 1..MaxPolls :
       /\ polls[p].pc = "count"
       /\ polls[p].updatedAt < conn.lastUpdated

\* ---------------------------------------------------------------- C29
\* C29: once the client has cancelled the stream, no further poll of the
\* store is started, whenever the cancellation arrives.
C29_NoPollAfterCancel ==
  [][\A p \in 1..MaxPolls :
       polls[p].pc = "idle" /\ polls'[p].pc = "found" => ~conn.aborted]_vars

\* ---------------------------------------------------------------- C30
\* the incident is gone and the client is still there
Gone ==
  /\ conn.pc = "polling"
  /\ ~conn.aborted
  /\ conn.incidentId \notin DOMAIN incidents

SpecStreamFair == SpecStream /\ WF_vars(Polls)

\* ---------------------------------------------------------------- C31
\* a callback that has read the incident and is past the comparison
PastComparison(p) ==
  polls[p].pc \in {"count", "counted", "fetch", "fetched"}

assignIncident_Read(k, user, tenantId, id, assigneeId) ==
  /\ CanStart(k)
  /\ IF Gate(user, tenantId) # "pass"
     THEN Answer(k, Gate(user, tenantId))
     ELSE IF ~findFirst(id, tenantId)
     THEN Answer(k, "not_found")
     ELSE IF assigneeId # Null /\ getUserTenantRole(assigneeId, tenantId) = "NONE"
     THEN Answer(k, "assignee_not_member")
     ELSE Proceed(k,
            [NotStarted EXCEPT !.pc = "assign_tx", !.op = "assignIncident",
               !.user = user, !.tenantId = tenantId, !.ids = {id},
               !.assigneeId = assigneeId,
               !.snap = [i \in {id} |-> SnapshotOf(incidents[id])]])
  /\ UNCHANGED beyondIncidents

assignIncident_Commit(k) ==
  /\ reqs[k].pc = "assign_tx"
  /\ LET r == reqs[k]
         id == CHOOSE i \in r.ids : TRUE
     IN /\ incidents' = [incidents EXCEPT ![id] =
                           Touch([@ EXCEPT !.assigneeId = r.assigneeId])]
        /\ timeline' = Append(timeline,
              TimelineEvent(id, r.tenantId, "ACTION", Absent, Absent,
                            IF r.assigneeId = Null THEN "Unassigned"
                            ELSE AssignedTo(r.assigneeId), r.user))
        /\ auditLog' = Append(auditLog,
              AuditRow(r.tenantId, r.user, "ASSIGN", id,
                       Snapshot(Absent, r.snap[id].assigneeId),
                       Snapshot(Absent, r.assigneeId)))
  /\ reqs' = [reqs EXCEPT ![k] = Done("ok")]
  /\ UNCHANGED beyondIncidents

\* Every entry point that sets an assignee, on a store with an incident in
\* each tenant
NextAssignee ==
  \/ \E k \in RequestIds, u \in Users, i \in IncidentIds,
        a \in Users \cup {Null} :
        \E t \in SessionTenants(u) \ {Absent} : assignIncident_Read(k, u, t, i, a)
  \/ \E k \in RequestIds : assignIncident_Commit(k)
  \/ \E k \in RequestIds, u \in Users, i \in IncidentIds,
        a \in Users \cup {Absent} :
        \E t \in SessionTenants(u) \ {Absent} : updateIncident_Read(k, u, t, i, a)
  \/ \E k \in RequestIds : updateIncident_Commit(k)
  \/ \E k \in RequestIds, u \in Users, S \in Selections, a \in Users :
        \E t \in SessionTenants(u) \ {Absent} : bulkAssign_Read(k, u, t, S, a)
  \/ \E k \in RequestIds : bulkAssign_Commit(k)
  \/ \E k \in RequestIds, u \in Users, S \in Selections, a \in Users :
        \E t \in SessionTenants(u) : POST_bulk_assign_Read(k, u, t, S, a)
  \/ \E k \in RequestIds : POST_bulk_UpdateMany(k)
  \/ \E k \in RequestIds : POST_bulk_Audit(k)

SpecAssignee == InitTenant /\ [][NextAssignee]_vars

\* ---------------------------------------------------------------- C32
\* C32: in every reachable state the assignee of an incident, when set, is
\* a user with a membership in the tenant of the incident.
C32_AssigneeIsMember ==
  \A i \in DOMAIN incidents :
    incidents[i].assigneeId # Null =>
      getUserTenantRole(incidents[i].assigneeId, incidents[i].tenantId) # "NONE"

\* ---------------------------------------------------------------- C33
\* an event written by the creation of an incident or by a status change:
\* it names the status left (null at creation) and the status entered
FromTransition(ev) == ev.from \in Status \cup {Null} /\ ev.to \in Status

CurrentMember(user, tenantId) == getUserTenantRole(user, tenantId) # "NONE"

\* C34: a principal with no membership in a tenant is never answered with
\* rows of that tenant, and no step of a request of such a principal
\* changes an incident of that tenant.
C34_AccessNeedsMembership ==
  [][\A k \in RequestIds :
       /\ reqs[k].pc = "new" /\ reqs'[k].pc = "done"
           => \A row \in reqs'[k].returned :
                CurrentMember(reqs'[k].user, row.tenantId)
       /\ k \in InFlight /\ Acts(k)
           => \A i \in DOMAIN incidents :
                incidents'[i] # incidents[i]
                  => CurrentMember(reqs[k].user, incidents[i].tenantId)]_vars

\* ========================= POST /api/feature-flags  (api route)
\* createFlagSchema: key of [a-z0-9_-]+, environment DEV, STAGING or PROD
FlagKeys == {"new-checkout", "New Checkout"}
FlagEnvironments == {"PROD", "STAGING", "QA"}

createFlagSchema(body) ==
  body.key = "new-checkout" /\ body.environment \in {"DEV", "STAGING", "PROD"}

\* prisma.featureFlag.findFirst({ where: { tenantId, key, environment } })
flagExists(tenantId, key, environment) ==
  \E f \in DOMAIN flags :
    /\ flags[f].tenantId = tenantId
    /\ flags[f].key = key
    /\ flags[f].environment = environment

\* session, tenant context, the schema and the duplicate check: all of it
\* happens before the transaction is opened
POST_flag_Read(k, user, tenantId, body) ==
  /\ CanStart(k)
  /\ IF user = NoUser \/ tenantId = Absent
     THEN Answer(k, "unauthorized")
     ELSE IF ~createFlagSchema(body)
     THEN Answer(k, "bad_request")
     ELSE IF flagExists(tenantId, body.key, body.environment)
     THEN Answer(k, "conflict")
     ELSE Proceed(k,
            [NotStarted EXCEPT !.pc = "flag_tx", !.op = "POST flag",
               !.user = user, !.tenantId = tenantId,
               !.message = body.key, !.evType = body.environment])
  /\ UNCHANGED <<services, queue, flagTables>>

\* the transaction: featureFlag.create and auditLog.create.  The unique
\* index FeatureFlag_tenantId_key_environment_key refuses a second row with
\* the triple; create throws, the transaction rolls back and the catch of
\* the handler answers 500.
POST_flag_Commit(k) ==
  /\ reqs[k].pc = "flag_tx"
  /\ LET r == reqs[k]
     IN IF flagExists(r.tenantId, r.message, r.evType)
        THEN Answer(k, "error") /\ UNCHANGED flags
        ELSE /\ flags' = Append(flags,
                  FlagRow(r.tenantId, r.message, FALSE, r.evType))
             /\ auditLog' = Append(auditLog,
                  AuditRow(r.tenantId, r.user, "CREATE", Len(flags) + 1,
                           NoData, NoData))
             /\ reqs' = [reqs EXCEPT ![k] = Done("created")]
             /\ UNCHANGED <<incidents, timeline>>
  /\ UNCHANGED <<services, queue, rules, evals>>

\* Flag creation by overlapping requests, on a store without flags
NextFlagCreate ==
  \/ \E k \in RequestIds, u \in Callers, key \in FlagKeys,
        e \in FlagEnvironments :
       \E t \in SessionTenants(u) :
         POST_flag_Read(k, u, t, [key |-> key, environment |-> e])
  \/ \E k \in RequestIds : POST_flag_Commit(k)

SpecFlagCreate == Init /\ [][NextFlagCreate]_vars

\* ---------------------------------------------------------------- C35
\* request k, past its session check and its schema, is answered in this
\* step
AnswersCreate(k) ==
  /\ reqs[k].pc \in {"new", "flag_tx"}
  /\ reqs'[k].pc = "done"
  /\ reqs'[k].code \notin {"unauthorized", "bad_request"}

\* C35: no two flags share (tenant, key, environment), and a create that
\* finds its triple used, overlapping creates included, is answered with a
\* conflict and writes neither a flag nor an audit row.
C35_DuplicateFlagIsConflict ==
  [][/\ \A f, g \in DOMAIN flags' :
          /\ flags'[f].tenantId = flags'[g].tenantId
          /\ flags'[f].key = flags'[g].key
          /\ flags'[f].environment = flags'[g].environment
          => f = g
     /\ \A k \in RequestIds :
          AnswersCreate(k) =>
            IF flags' = flags
            THEN reqs'[k].code = "conflict" /\ auditLog' = auditLog
            ELSE reqs'[k].code = "created"]_vars

\* ---------------------------------------------------------------- C36
RECURSIVE ShortCircuit(_, _, _)
RECURSIVE UpToDecisive(_, _, _, _, _)
\* the entries of an evaluation that leaves an AND at its first sub-rule
\* that does not match and an OR at its first sub-rule that matches
ShortCircuit(rule, context, flagKey) ==
  IF rule.type \in {"AND", "OR"}
  THEN <<Entry(rule.type, "Evaluating")>>
         \o UpToDecisive(rule.rules, 1, rule.type = "OR", context, flagKey)
         \o <<Entry(rule.type, evaluateRule(rule, context, flagKey))>>
  ELSE ruleTrace(rule, context, flagKey)

UpToDecisive(subRules, i, decisive, context, flagKey) ==
  IF i > Len(subRules) THEN <<>>
  ELSE ShortCircuit(subRules[i], context, flagKey)
         \o (IF evaluateRule(subRules[i], context, flagKey) = decisive
             THEN <<>>
             ELSE UpToDecisive(subRules, i + 1, decisive, context, flagKey))

\* C36: the trace of every AND and OR rule that was evaluated holds the
\* entries of its sub-rules up to the first one that decides it (the first
\* miss of an AND, the first match of an OR) and nothing of the sub-rules
\* after that one.
C36_ShortCircuit ==
  \A i \in DOMAIN evals.traces :
    ruleSchema(evals.rules[i].condition) =>
      evals.traces[i] =
        ShortCircuit(evals.rules[i].condition,
                     [userId |-> evals.userId, environment |-> evals.environment],
                     flags[evals.flagId].key)

\* ========================= GET /api/incidents, one page  (api route)
\* the limit parameter as the query string carries it, and none
LimitParams == {Absent, "1", "2", "500"}

\* parseInt(parsedQuery.limit || "20")
parseInt(text) ==
  IF text = Absent THEN 20
  ELSE IF text = "1" THEN 1
  ELSE IF text = "2" THEN 2
  ELSE 500

\* Math.min(parseInt(...), 100)
pageLimit(text) == IF parseInt(text) < 100 THEN parseInt(text) ELSE 100

RECURSIVE descending(_)
\* orderBy: { createdAt: "desc" }: incidents are numbered as they are created
descending(S) ==
  IF S = {} THEN <<>>
  ELSE LET m == CHOOSE x \in S : \A y \in S : y <= x
       IN <<m>> \o descending(S \ {m})

\* findMany({ where, orderBy, take, skip: 1, cursor }): the rows after the
\* cursor row, or from the first row without a cursor (written 0), take of
\* them at most
findManyPage(tenantId, cursor, take) ==
  LET all == descending(findMany(DOMAIN incidents, tenantId))
      from == IF cursor = 0 THEN all
              ELSE descending({i \in findMany(DOMAIN incidents, tenantId) :
                                 i < cursor})
  IN SubSeq(from, 1, IF Len(from) < take THEN Len(from) ELSE take)

\* the answer of a list request: the page and what it says about the rest
Page(user, tenantId, limit, cursor, rows, nextCursor, hasMore) ==
  [pc |-> "done", code |-> "ok", op |-> "GET incidents", user |-> user,
   tenantId |-> tenantId, limit |-> limit, cursor |-> cursor,
   incidents |-> rows, nextCursor |-> nextCursor, hasMore |-> hasMore]

\* the handler: take limit + 1, pop the extra row, nextCursor is the id of
\* the last row kept, hasMore compares the length of the page with limit
GET_incidents_page(k, user, tenantId, limitParam, cursor) ==
  /\ CanStart(k)
  /\ IF user = NoUser \/ tenantId = Absent
     THEN Answer(k, "unauthorized")
     ELSE LET limit == pageLimit(limitParam)
              found == findManyPage(tenantId, cursor, limit + 1)
              more == Len(found) > limit
              rows == IF more THEN SubSeq(found, 1, Len(found) - 1) ELSE found
              nextCursor == IF more /\ Len(rows) > 0 THEN rows[Len(rows)]
                            ELSE Null
          IN /\ reqs' = [reqs EXCEPT ![k] =
                  Page(user, tenantId, limit, cursor, rows, nextCursor,
                       Len(rows) = limit)]
             /\ UNCHANGED store
  /\ UNCHANGED beyondIncidents

\* Pages of the incident list, asked for with and without a cursor
NextList ==
  \E k \in RequestIds, u \in Callers, l \in LimitParams,
     c \in 0..MaxIncidents :
    \E t \in SessionTenants(u) : GET_incidents_page(k, u, t, l, c)

SpecList == Init /\ [][NextList]_vars

\* ---------------------------------------------------------------- C37
\* the answered list requests
Pages == {k \in RequestIds : reqs[k].pc = "done" /\ reqs[k].code = "ok"}

\* the matching incidents that come after the page of request k
After(k) ==
  LET r == reqs[k]
      last == IF Len(r.incidents) > 0 THEN r.incidents[Len(r.incidents)]
              ELSE r.cursor
  IN {i \in findMany(DOMAIN incidents, r.tenantId) :
        last = 0 \/ i < last}

\* C37: a page holds at most limit items (20 by default, 100 at most), and
\* its next cursor is non-null, and its hasMore true, exactly when a
\* matching item exists after the page.
C37_PageAndCursor ==
  \A k \in Pages :
    /\ Len(reqs[k].incidents) <= reqs[k].limit
    /\ reqs[k].limit \in 1..100
    /\ (reqs[k].nextCursor # Null) <=> (After(k) # {})
    /\ reqs[k].hasMore <=> (After(k) # {})

\* ---------------------------------------------------------------- C38
RECURSIVE statusChain(_, _)
\* the STATUS_CHANGE events of incident id among the first n rows of the
\* timeline, in creation order
statusChain(id, n) ==
  IF n = 0 THEN <<>>
  ELSE IF timeline[n].incidentId = id /\ timeline[n].type = "STATUS_CHANGE"
  THEN Append(statusChain(id, n - 1), timeline[n])
  ELSE statusChain(id, n - 1)

\* C38: the STATUS_CHANGE events of every incident form a chain in creation
\* order: the first is from null to OPEN, each later one starts where the
\* one before it ended, and the last one ends at the incident's status.
C38_StatusEventsFormChain ==
  \A id \in DOMAIN incidents :
    LET chain == statusChain(id, Len(timeline))
    IN /\ Len(chain) > 0
       /\ chain[1].from = Null /\ chain[1].to = "OPEN"
       /\ \A n \in 2..Len(chain) : chain[n].from = chain[n - 1].to
       /\ chain[Len(chain)].to = incidents[id].status

\* ---------------------------------------------------------------- C39
\* request k is an updateIncident call taking a step
UpdateActs(k) ==
  /\ Acts(k)
  /\ \/ reqs[k].pc = "update_tx"
     \/ reqs[k].pc = "new" /\ reqs'[k].op = "updateIncident"

\* C39: no step of updateIncident changes the status of an incident or
\* appends a STATUS_CHANGE event.
C39_UpdateLeavesStatus ==
  [][\A k \in RequestIds :
       UpdateActs(k) =>
         /\ \A i \in DOMAIN incidents :
              i \in DOMAIN incidents' /\ incidents'[i].status = incidents[i].status
         /\ \A n \in (Len(timeline) + 1)..Len(timeline') :
              timeline'[n].type # "STATUS_CHANGE"]_vars

\* updateIncident has committed a new assignee on an incident that a
\* transition path has moved on from OPEN
C39_Witness ==
  \E n \in DOMAIN auditLog :
    /\ auditLog[n].action = "UPDATE"
    /\ auditLog[n].beforeData.status = auditLog[n].afterData.status
    /\ auditLog[n].beforeData.assigneeId # auditLog[n].afterData.assigneeId
    /\ incidents[auditLog[n].entityId].status # "OPEN"

\* ---------------------------------------------------------------- C40
\* callback p calls controller.enqueue in this step: every way out of these
\* three pieces goes through an enqueue (deleted, incident_updated,
\* timeline_updated or the heartbeat), the one that throws included
Enqueues(p) ==
  \/ polls[p].pc \in {"found", "counted", "fetched"} /\ polls'[p].pc = "idle"
  \/ polls[p].pc = "found" /\ polls'[p].pc = "count" /\ frames' # frames

\* the abort listener runs in this step and calls controller.close()
ListenerCloses == ~conn.aborted /\ conn'.aborted /\ conn.listening

\* C40: once the connection is closed no callback calls enqueue on its
\* controller, and close is not called on it again.
C40_NoUseAfterClose ==
  [][/\ \A p \in 1..MaxPolls : Enqueues(p) => ~conn.closed
     /\ ListenerCloses => ~conn.closed]_vars

====
